---- MODULE Spec2Model ----
(***************************************************************************)
(* A model of the pyxero client core: the OAuth credential classes of      *)
(* xero/auth.py and the resource manager of xero/manager.py.               *)
(*                                                                         *)
(* Conventions.  A Python value that may be None is an option: <<>> is     *)
(* None and <<v>> is the value v.  A url-encoded text is the sequence of   *)
(* its key=value pairs, in order.  A datetime is an integer of seconds.    *)
(* A call of a method is one action; its result (the requests it sent,     *)
(* the object it returned, the exception it raised, the clock readings it  *)
(* took) is left in `last`.                                                *)
(***************************************************************************)
EXTENDS Integers, Sequences, FiniteSets, TLC

VARIABLES
    cred,   \* the credentials object of the program (mode "none": no object)
    mgr,    \* the Manager bound to the credentials
    now,    \* the wall clock, datetime.datetime.now()
    last    \* the last call: what it sent, received, returned or raised

vars == <<cred, mgr, now, last>>

----------------------------------------------------------------------------
(* Bounds *)

MaxTime == 1        \* the clock stops advancing here
MaxTick == 1        \* largest advance of the clock between two readings

----------------------------------------------------------------------------
(* Python values *)

None == <<>>
Some(v) == <<v>>

\* bool(x) of an optional string: None and "" are false
Truthy(x) == x # None /\ x[1] # ""

----------------------------------------------------------------------------
(* xero/constants.py *)

XERO_BASE_URL == "https://api.xero.com"
REQUEST_TOKEN_URL == "https://api.xero.com/oauth/RequestToken"
AUTHORIZE_URL == "https://api.xero.com/oauth/Authorize"
ACCESS_TOKEN_URL == "https://api.xero.com/oauth/AccessToken"
XERO_API_URL == "https://api.xero.com/api.xro/2.0"
PARTNER_XERO_BASE_URL == "https://api-partner.network.xero.com"
PARTNER_REQUEST_TOKEN_URL == "https://api-partner.network.xero.com/oauth/RequestToken"
PARTNER_AUTHORIZE_URL == AUTHORIZE_URL
PARTNER_ACCESS_TOKEN_URL == "https://api-partner.network.xero.com/oauth/AccessToken"
PARTNER_XERO_API_URL == "https://api-partner.network.xero.com/api.xro/2.0"

SIGNATURE_HMAC == "HMAC-SHA1"
SIGNATURE_RSA == "RSA-SHA1"

----------------------------------------------------------------------------
(* urlparse.parse_qs: the values of each key, in order; a pair whose value *)
(* is blank is dropped (keep_blank_values is off), so that a key all of    *)
(* whose values are blank is absent from the result.                       *)

RECURSIVE ValuesOf(_, _)
ValuesOf(text, k) ==
    IF text = <<>> THEN <<>>
    ELSE IF Head(text)[1] = k /\ Head(text)[2] # ""
         THEN <<Head(text)[2]>> \o ValuesOf(Tail(text), k)
         ELSE ValuesOf(Tail(text), k)

RECURSIVE ValuesOf_keep_blank(_, _)
ValuesOf_keep_blank(text, k) ==
    IF text = <<>> THEN <<>>
    ELSE IF Head(text)[1] = k
         THEN <<Head(text)[2]>> \o ValuesOf_keep_blank(Tail(text), k)
         ELSE ValuesOf_keep_blank(Tail(text), k)

parse_qs_keep_blank(text) ==
    [k \in {text[i][1] : i \in 1..Len(text)} |-> ValuesOf_keep_blank(text, k)]

parse_qs(text) ==
    [k \in {text[i][1] : i \in {j \in 1..Len(text) : text[j][2] # ""}}
        |-> ValuesOf(text, k)]

\* credentials.get(key): the list of values, or None
Get(d, k) == IF k \in DOMAIN d THEN Some(d[k]) ELSE None

\* int(s) of the decimal strings the server sends; ValueError otherwise
DecimalStrings == ("0" :> 0) @@ ("30" :> 30) @@ ("1800" :> 1800)
IsDecimal(s) == s \in DOMAIN DecimalStrings
int(s) == DecimalStrings[s]

----------------------------------------------------------------------------
(* Results of calls *)

Ok == [kind |-> "ok", response |-> None, payload |-> None]
Raise(kind, response) == [kind |-> kind, response |-> Some(response), payload |-> None]
RaisePayload(kind, response, payload) ==
    [kind |-> kind, response |-> Some(response), payload |-> Some(payload)]
\* an exception of the interpreter or of this library that carries no response
RaiseBare(kind) == [kind |-> kind, response |-> None, payload |-> None]

\* requests.<method>(url, params=, auth=, cert=)
Request(method, url, auth, cert, params) ==
    [method |-> method, url |-> url, auth |-> auth, cert |-> cert, params |-> params]

\* requests_oauthlib.OAuth1(...); the attributes the library sets later are None
OAuth1(client_key, client_secret, resource_owner_key, resource_owner_secret, callback_uri, verifier, rsa_key, signature_method) ==
    [client_key |-> client_key, client_secret |-> client_secret,
     resource_owner_key |-> resource_owner_key,
     resource_owner_secret |-> resource_owner_secret,
     callback_uri |-> callback_uri, verifier |-> verifier,
     rsa_key |-> rsa_key, signature_method |-> signature_method,
     client_cert |-> None, api_url |-> None]

----------------------------------------------------------------------------
(* The attributes of a credentials object.  mode "none" is no object; an   *)
(* attribute the class of the object does not set is None.                 *)

NoCred ==
    [mode |-> "none",
     consumer_key |-> None, consumer_secret |-> None,
     rsa_key |-> None, client_cert |-> None,
     callback_uri |-> None, verified |-> FALSE, scope |-> None,
     oauth_token |-> None, oauth_token_secret |-> None,
     oauth_session_handle |-> None,
     oauth_expires_at |-> None, oauth_authorization_expires_at |-> None,
     oauth_expires_in |-> None, oauth_authorisation_expires_in |-> None,
     _oauth |-> None, oauth |-> None]

----------------------------------------------------------------------------
(* What the caller and the server supply *)

ConsumerKey == "ck"
ConsumerSecret == "cs"
RsaKey == "rsa"
ClientCert == "cert"
Verifiers == {"v1"}

\* the token pairs the server issues: a request token, and access tokens
\* each with its secret and session handle
RequestTokens == {"rt"}
AccessTokens == {"at1", "at2"}
SecretOf(tok) == IF tok = "rt" THEN "rs" ELSE IF tok = "at1" THEN "as1" ELSE "as2"
HandleOf(tok) == IF tok = "at1" THEN "h1" ELSE "h2"

Opt(S) == {None} \cup {Some(v) : v \in S}

Field(k, v) == IF v = None THEN <<>> ELSE <<<<k, v[1]>>>>

\* the url-encoded body of a token response; any of its fields may be missing
TokenBody(tok, sec, e, h, a) ==
    Field("oauth_token", tok) \o Field("oauth_token_secret", sec)
    \o Field("oauth_expires_in", e) \o Field("oauth_session_handle", h)
    \o Field("oauth_authorization_expires_in", a)

\* what the request-token and the public access-token endpoints answer
PlainBodies(toks) ==
    {TokenBody(Some(tok), Some(SecretOf(tok)), None, None, None) : tok \in toks}
    \cup {TokenBody(Some(tok), None, None, None, None) : tok \in toks}
    \cup {TokenBody(None, Some("as1"), None, None, None), <<>>}

\* what the partner access-token endpoint answers: a complete grant, or a
\* grant with one field missing or with a lifetime that is not a number
PartnerBodies ==
    {TokenBody(Some(tok), Some(SecretOf(tok)), Some("1800"),
               Some(HandleOf(tok)), Some("30")) : tok \in AccessTokens}
    \cup {TokenBody(None, Some("as2"), Some("1800"), Some("h2"), Some("30")),
          TokenBody(Some("at2"), None, Some("1800"), Some("h2"), Some("30")),
          TokenBody(Some("at2"), Some("as2"), None, Some("h2"), Some("30")),
          TokenBody(Some("at2"), Some("as2"), Some("1800"), None, Some("30")),
          TokenBody(Some("at2"), Some("as2"), Some("1800"), Some("h2"), None),
          TokenBody(Some("at2"), Some("as2"), Some("soon"), Some("h2"), Some("30")),
          TokenBody(Some("at2"), Some("as2"), Some("1800"), Some("h2"), Some("later"))}

ThrottleBodies ==
    { <<>>,
      << <<"oauth_problem", "rate_limit_exceeded">> >>,
      << <<"oauth_problem", "">> >> }

Statuses == {200, 302, 400, 401, 403, 404, 500, 501, 503}

Response(status_code, text) == [status_code |-> status_code, text |-> text]

\* the responses of an endpoint that answers 200 with one of `bodies`
Responses(bodies) ==
    {Response(200, b) : b \in bodies}
    \cup {Response(503, b) : b \in ThrottleBodies}
    \cup {Response(s, <<>>) : s \in Statuses \ {200, 503}}

----------------------------------------------------------------------------
(* class PrivateCredentials *)

\* variant: the constructor stamps the credentials with an expiry
PrivateCredentials_init_expiring(consumer_key, rsa_key) ==
    LET self == [NoCred EXCEPT !.mode = "private",
                               !.consumer_key = Some(consumer_key),
                               !.rsa_key = Some(rsa_key),
                               !.oauth_token = Some(consumer_key),
                               !.oauth_expires_at = Some(0)]
    IN  [obj |-> [self EXCEPT !.oauth =
                    Some([OAuth1(self.consumer_key, None, self.oauth_token, None,
                                 None, None, self.rsa_key, SIGNATURE_RSA)
                            EXCEPT !.api_url = Some(XERO_API_URL)])],
         sent |-> <<>>, outcome |-> Ok]

\* variant: the signing object is built without a resource-owner token
PrivateCredentials_init_no_token(consumer_key, rsa_key) ==
    LET self == [NoCred EXCEPT !.mode = "private",
                               !.consumer_key = Some(consumer_key),
                               !.rsa_key = Some(rsa_key),
                               !.oauth_token = Some(consumer_key)]
    IN  [obj |-> [self EXCEPT !.oauth =
                    Some([OAuth1(self.consumer_key, None, None, None,
                                 None, None, self.rsa_key, SIGNATURE_RSA)
                            EXCEPT !.api_url = Some(XERO_API_URL)])],
         sent |-> <<>>, outcome |-> Ok]

\* PrivateCredentials(consumer_key, rsa_key): the signing object is built by
\* the constructor, which sends nothing
PrivateCredentials_init(consumer_key, rsa_key) ==
    LET self == [NoCred EXCEPT !.mode = "private",
                               !.consumer_key = Some(consumer_key),
                               !.rsa_key = Some(rsa_key),
                               !.oauth_token = Some(consumer_key)]
    IN  [obj |-> [self EXCEPT !.oauth =
                    Some([OAuth1(self.consumer_key, None, self.oauth_token, None,
                                 None, None, self.rsa_key, SIGNATURE_RSA)
                            EXCEPT !.api_url = Some(XERO_API_URL)])],
         sent |-> <<>>, outcome |-> Ok]

----------------------------------------------------------------------------
(* class PublicCredentials *)

\* the if/elif chain of __init__ on response.status_code
PublicCredentials_init_status(response) ==
    IF response.status_code = 200 THEN Ok
    ELSE IF response.status_code = 400 THEN Raise("XeroBadRequest", response)
    ELSE IF response.status_code = 401 THEN Raise("XeroUnauthorized", response)
    ELSE IF response.status_code = 403 THEN Raise("XeroForbidden", response)
    ELSE IF response.status_code = 404 THEN Raise("XeroNotFound", response)
    ELSE IF response.status_code = 500 THEN Raise("XeroInternalError", response)
    ELSE IF response.status_code = 501 THEN Raise("XeroNotImplemented", response)
    ELSE IF response.status_code = 503
         THEN LET payload == parse_qs(response.text)
              IN  IF DOMAIN payload # {}
                  THEN RaisePayload("XeroRateLimitExceeded", response, payload)
                  ELSE Raise("XeroNotAvailable", response)
    ELSE Raise("XeroExceptionUnknown", response)

\* variant: the signing object is not built
Public_init_oauth_unsigned(self, oauth_token, oauth_token_secret) ==
    [self EXCEPT !.oauth_token = Some(oauth_token),
                 !.oauth_token_secret = Some(oauth_token_secret),
                 !.verified = TRUE]

Public_init_oauth(self, oauth_token, oauth_token_secret) ==
    LET s == [self EXCEPT !.oauth_token = Some(oauth_token),
                          !.oauth_token_secret = Some(oauth_token_secret),
                          !.verified = TRUE]
    IN  [s EXCEPT !._oauth =
            Some([OAuth1(s.consumer_key, s.consumer_secret,
                         s.oauth_token, s.oauth_token_secret,
                         None, None, None, SIGNATURE_HMAC)
                    EXCEPT !.api_url = Some(XERO_API_URL)])]

\* PublicCredentials(consumer_key, consumer_secret, **kw), the server
\* answering `response` if it is asked.  obj is the object constructed
\* (NoCred when the constructor raises), sent the requests it made.
PublicCredentials_init(consumer_key, consumer_secret, kw, response) ==
    LET self == [NoCred EXCEPT !.mode = "public",
                               !.consumer_key = Some(consumer_key),
                               !.consumer_secret = Some(consumer_secret),
                               !.callback_uri = kw.callback_uri,
                               !.verified = kw.verified,
                               !.scope = kw.scope]
    IN  IF Truthy(kw.oauth_token) /\ Truthy(kw.oauth_token_secret)
        THEN IF self.verified
             THEN [obj |-> Public_init_oauth(self, kw.oauth_token[1],
                                             kw.oauth_token_secret[1]),
                   sent |-> <<>>, outcome |-> Ok]
             ELSE [obj |-> [self EXCEPT !.oauth_token = kw.oauth_token,
                                        !.oauth_token_secret = kw.oauth_token_secret],
                   sent |-> <<>>, outcome |-> Ok]
        ELSE LET oauth == OAuth1(Some(consumer_key), self.consumer_secret,
                                 None, None, self.callback_uri, None,
                                 None, SIGNATURE_HMAC)
                 sent == <<Request("post", REQUEST_TOKEN_URL, oauth, None, None)>>
                 status == PublicCredentials_init_status(response)
                 credentials == parse_qs(response.text)
             IN  IF status.kind # "ok"
                 THEN [obj |-> NoCred, sent |-> sent, outcome |-> status]
                 ELSE IF Get(credentials, "oauth_token") = None
                         \/ Get(credentials, "oauth_token_secret") = None
                 THEN [obj |-> NoCred, sent |-> sent,
                       outcome |-> RaiseBare("TypeError")]
                 ELSE [obj |-> [self EXCEPT
                                  !.oauth_token = Some(credentials["oauth_token"][1]),
                                  !.oauth_token_secret =
                                      Some(credentials["oauth_token_secret"][1])],
                       sent |-> sent, outcome |-> Ok]

\* the state property
PublicStateAttrs ==
    <<"consumer_key", "consumer_secret", "callback_uri",
      "verified", "oauth_token", "oauth_token_secret", "scope">>

\* getattr(self, attr): verified is a bool, every other attribute an option
AttrIsNone(self, attr) == attr # "verified" /\ self[attr] = None
AttrValue(self, attr) == IF attr = "verified" THEN self.verified ELSE self[attr][1]

RangeOf(seq) == {seq[i] : i \in 1..Len(seq)}

Public_state(self) ==
    [attr \in {a \in RangeOf(PublicStateAttrs) : ~AttrIsNone(self, a)}
        |-> AttrValue(self, attr)]

\* the if/elif chain of verify on response.status_code
Public_verify_status(response) ==
    IF response.status_code = 200 THEN Ok
    ELSE IF response.status_code = 400 THEN Raise("XeroBadRequest", response)
    ELSE IF response.status_code = 401 THEN Raise("XeroUnauthorized", response)
    ELSE IF response.status_code = 403 THEN Raise("XeroForbidden", response)
    ELSE IF response.status_code = 404 THEN Raise("XeroNotFound", response)
    ELSE IF response.status_code = 500 THEN Raise("XeroInternalError", response)
    ELSE IF response.status_code = 501 THEN Raise("XeroNotImplemented", response)
    ELSE IF response.status_code = 503
         THEN LET payload == parse_qs(response.text)
              IN  IF DOMAIN payload # {}
                  THEN RaisePayload("XeroRateLimitExceeded", response, payload)
                  ELSE Raise("XeroNotAvailable", response)
    ELSE Raise("XeroExceptionUnknown", response)

\* self.verify(verifier)
Public_verify(self, verifier, response) ==
    LET oauth == OAuth1(self.consumer_key, self.consumer_secret,
                        self.oauth_token, self.oauth_token_secret,
                        None, Some(verifier), None, SIGNATURE_HMAC)
        sent == <<Request("post", ACCESS_TOKEN_URL, oauth, None, None)>>
        status == Public_verify_status(response)
        credentials == parse_qs(response.text)
    IN  IF status.kind # "ok"
        THEN [obj |-> self, sent |-> sent, outcome |-> status]
        ELSE IF Get(credentials, "oauth_token") = None
                \/ Get(credentials, "oauth_token_secret") = None
        THEN [obj |-> self, sent |-> sent, outcome |-> RaiseBare("TypeError")]
        ELSE [obj |-> Public_init_oauth(self, credentials["oauth_token"][1],
                                        credentials["oauth_token_secret"][1]),
              sent |-> sent, outcome |-> Ok]

\* the oauth property
Public_oauth(self) ==
    IF self._oauth = None
    THEN [value |-> None, outcome |-> RaiseBare("XeroNotVerified")]
    ELSE [value |-> self._oauth, outcome |-> Ok]

----------------------------------------------------------------------------
(* class PartnerCredentials *)

\* the if/elif chain of __init__ on response.status_code
PartnerCredentials_init_status(response) ==
    IF response.status_code = 200 THEN Ok
    ELSE IF response.status_code = 400 THEN Raise("XeroBadRequest", response)
    ELSE IF response.status_code = 401 THEN Raise("XeroUnauthorized", response)
    ELSE IF response.status_code = 403 THEN Raise("XeroForbidden", response)
    ELSE IF response.status_code = 404 THEN Raise("XeroNotFound", response)
    ELSE IF response.status_code = 500 THEN Raise("XeroInternalError", response)
    ELSE IF response.status_code = 501 THEN Raise("XeroNotImplemented", response)
    ELSE IF response.status_code = 503
         THEN LET payload == parse_qs(response.text)
              IN  IF DOMAIN payload # {}
                  THEN RaisePayload("XeroRateLimitExceeded", response, payload)
                  ELSE Raise("XeroNotAvailable", response)
    ELSE Raise("XeroExceptionUnknown", response)

Partner_init_oauth(self, oauth_token, oauth_token_secret) ==
    LET s == [self EXCEPT !.oauth_token = Some(oauth_token),
                          !.oauth_token_secret = Some(oauth_token_secret),
                          !.verified = TRUE]
    IN  [s EXCEPT !._oauth =
            Some([OAuth1(s.consumer_key, s.consumer_secret,
                         s.oauth_token, s.oauth_token_secret,
                         None, None, s.rsa_key, SIGNATURE_RSA)
                    EXCEPT !.client_cert = s.client_cert,
                           !.api_url = Some(PARTNER_XERO_API_URL)])]

\* PartnerCredentials(consumer_key, consumer_secret, rsa_key, client_cert, **kw)
PartnerCredentials_init(consumer_key, consumer_secret, rsa_key, client_cert, kw, response) ==
    LET self == [NoCred EXCEPT !.mode = "partner",
                               !.consumer_key = Some(consumer_key),
                               !.consumer_secret = Some(consumer_secret),
                               !.rsa_key = Some(rsa_key),
                               !.client_cert = Some(client_cert),
                               !.callback_uri = kw.callback_uri,
                               !.verified = kw.verified,
                               !.oauth_session_handle = kw.oauth_session_handle,
                               !.oauth_expires_at = kw.oauth_expires_at,
                               !.oauth_authorization_expires_at =
                                    kw.oauth_authorization_expires_at,
                               !.scope = kw.scope]
    IN  IF Truthy(kw.oauth_token) /\ Truthy(kw.oauth_token_secret)
        THEN IF self.verified
             THEN [obj |-> Partner_init_oauth(self, kw.oauth_token[1],
                                              kw.oauth_token_secret[1]),
                   sent |-> <<>>, outcome |-> Ok]
             ELSE [obj |-> [self EXCEPT !.oauth_token = kw.oauth_token,
                                        !.oauth_token_secret = kw.oauth_token_secret],
                   sent |-> <<>>, outcome |-> Ok]
        ELSE LET oauth == OAuth1(Some(consumer_key), self.consumer_secret,
                                 None, None, self.callback_uri, None,
                                 self.rsa_key, SIGNATURE_RSA)
                 sent == <<Request("post", PARTNER_REQUEST_TOKEN_URL, oauth,
                                   Some(client_cert), None)>>
                 status == PartnerCredentials_init_status(response)
                 credentials == parse_qs(response.text)
             IN  IF status.kind # "ok"
                 THEN [obj |-> NoCred, sent |-> sent, outcome |-> status]
                 ELSE IF Get(credentials, "oauth_token") = None
                         \/ Get(credentials, "oauth_token_secret") = None
                 THEN [obj |-> NoCred, sent |-> sent,
                       outcome |-> RaiseBare("TypeError")]
                 ELSE [obj |-> [self EXCEPT
                                  !.oauth_token = Some(credentials["oauth_token"][1]),
                                  !.oauth_token_secret =
                                      Some(credentials["oauth_token_secret"][1])],
                       sent |-> sent, outcome |-> Ok]

\* the state property
PartnerStateAttrs ==
    <<"consumer_key", "consumer_secret", "callback_uri",
      "verified", "oauth_token", "oauth_token_secret",
      "oauth_session_handle", "oauth_expires_at",
      "oauth_authorization_expires_at", "scope">>

\* variant: the RSA key is saved with the state
Partner_state_with_key(self) ==
    [attr \in {a \in RangeOf(PartnerStateAttrs) \cup {"rsa_key"} :
                  ~AttrIsNone(self, a)}
        |-> AttrValue(self, attr)]

Partner_state(self) ==
    [attr \in {a \in RangeOf(PartnerStateAttrs) : ~AttrIsNone(self, a)}
        |-> AttrValue(self, attr)]

\* the if/elif chain of _process_access_token_response on response.status_code
Partner_process_status(response) ==
    IF response.status_code = 200 THEN Ok
    ELSE IF response.status_code = 400 THEN Raise("XeroBadRequest", response)
    ELSE IF response.status_code = 401 THEN Raise("XeroUnauthorized", response)
    ELSE IF response.status_code = 403 THEN Raise("XeroForbidden", response)
    ELSE IF response.status_code = 404 THEN Raise("XeroNotFound", response)
    ELSE IF response.status_code = 500 THEN Raise("XeroInternalError", response)
    ELSE IF response.status_code = 501 THEN Raise("XeroNotImplemented", response)
    ELSE IF response.status_code = 503
         THEN LET payload == parse_qs(response.text)
              IN  IF DOMAIN payload # {}
                  THEN RaisePayload("XeroRateLimitExceeded", response, payload)
                  ELSE Raise("XeroNotAvailable", response)
    ELSE Raise("XeroExceptionUnknown", response)

\* variant: the token expiry is computed from the lifetime of the
\* authorization
Partner_process_swapped(self, response, t1, t2) ==
    LET status == Partner_process_status(response)
        credentials == parse_qs(response.text)
        s1 == Partner_init_oauth(self, credentials["oauth_token"][1],
                                 credentials["oauth_token_secret"][1])
        s2 == [s1 EXCEPT !.oauth_expires_in =
                            Some(credentials["oauth_expires_in"][1])]
        s3 == [s2 EXCEPT !.oauth_session_handle =
                            Some(credentials["oauth_session_handle"][1])]
        s4 == [s3 EXCEPT !.oauth_authorisation_expires_in =
                            Some(credentials["oauth_authorization_expires_in"][1])]
        s5 == [s4 EXCEPT !.oauth_expires_at =
                            Some(t1 + int(s4.oauth_authorisation_expires_in[1]))]
        s6 == [s5 EXCEPT !.oauth_authorization_expires_at =
                            Some(t2 + int(s5.oauth_authorisation_expires_in[1]))]
    IN  IF status.kind # "ok"
        THEN [obj |-> self, outcome |-> status, clock |-> <<>>]
        ELSE IF Get(credentials, "oauth_token") = None
                \/ Get(credentials, "oauth_token_secret") = None
        THEN [obj |-> self, outcome |-> RaiseBare("TypeError"), clock |-> <<>>]
        ELSE IF Get(credentials, "oauth_expires_in") = None
        THEN [obj |-> s1, outcome |-> RaiseBare("TypeError"), clock |-> <<>>]
        ELSE IF Get(credentials, "oauth_session_handle") = None
        THEN [obj |-> s2, outcome |-> RaiseBare("TypeError"), clock |-> <<>>]
        ELSE IF Get(credentials, "oauth_authorization_expires_in") = None
        THEN [obj |-> s3, outcome |-> RaiseBare("TypeError"), clock |-> <<>>]
        ELSE IF ~IsDecimal(s4.oauth_expires_in[1])
        THEN [obj |-> s4, outcome |-> RaiseBare("ValueError"), clock |-> <<t1>>]
        ELSE IF ~IsDecimal(s5.oauth_authorisation_expires_in[1])
        THEN [obj |-> s5, outcome |-> RaiseBare("ValueError"), clock |-> <<t1, t2>>]
        ELSE [obj |-> s6, outcome |-> Ok, clock |-> <<t1, t2>>]

\* self._process_access_token_response(response).  t1 and t2 are what the
\* two calls of datetime.datetime.now() return; clock is the readings taken.
\* The statements run in order, so an exception leaves the assignments made
\* before it in place.
Partner_process_access_token_response(self, response, t1, t2) ==
    LET status == Partner_process_status(response)
        credentials == parse_qs(response.text)
        s1 == Partner_init_oauth(self, credentials["oauth_token"][1],
                                 credentials["oauth_token_secret"][1])
        s2 == [s1 EXCEPT !.oauth_expires_in =
                            Some(credentials["oauth_expires_in"][1])]
        s3 == [s2 EXCEPT !.oauth_session_handle =
                            Some(credentials["oauth_session_handle"][1])]
        s4 == [s3 EXCEPT !.oauth_authorisation_expires_in =
                            Some(credentials["oauth_authorization_expires_in"][1])]
        s5 == [s4 EXCEPT !.oauth_expires_at =
                            Some(t1 + int(s4.oauth_expires_in[1]))]
        s6 == [s5 EXCEPT !.oauth_authorization_expires_at =
                            Some(t2 + int(s5.oauth_authorisation_expires_in[1]))]
    IN  IF status.kind # "ok"
        THEN [obj |-> self, outcome |-> status, clock |-> <<>>]
        ELSE IF Get(credentials, "oauth_token") = None
                \/ Get(credentials, "oauth_token_secret") = None
        THEN [obj |-> self, outcome |-> RaiseBare("TypeError"), clock |-> <<>>]
        ELSE IF Get(credentials, "oauth_expires_in") = None
        THEN [obj |-> s1, outcome |-> RaiseBare("TypeError"), clock |-> <<>>]
        ELSE IF Get(credentials, "oauth_session_handle") = None
        THEN [obj |-> s2, outcome |-> RaiseBare("TypeError"), clock |-> <<>>]
        ELSE IF Get(credentials, "oauth_authorization_expires_in") = None
        THEN [obj |-> s3, outcome |-> RaiseBare("TypeError"), clock |-> <<>>]
        ELSE IF ~IsDecimal(s4.oauth_expires_in[1])
        THEN [obj |-> s4, outcome |-> RaiseBare("ValueError"), clock |-> <<t1>>]
        ELSE IF ~IsDecimal(s5.oauth_authorisation_expires_in[1])
        THEN [obj |-> s5, outcome |-> RaiseBare("ValueError"), clock |-> <<t1, t2>>]
        ELSE [obj |-> s6, outcome |-> Ok, clock |-> <<t1, t2>>]

\* variant: a verify that raises clears the verified flag
Partner_verify_unverifying(self, verifier, response, t1, t2) ==
    LET oauth == OAuth1(self.consumer_key, self.consumer_secret,
                        self.oauth_token, self.oauth_token_secret,
                        None, Some(verifier), self.rsa_key, SIGNATURE_RSA)
        sent == <<Request("post", PARTNER_ACCESS_TOKEN_URL, oauth,
                          self.client_cert, None)>>
        r == Partner_process_access_token_response(self, response, t1, t2)
    IN  [obj |-> IF r.outcome.kind = "ok" THEN r.obj
                 ELSE [r.obj EXCEPT !.verified = FALSE],
         sent |-> sent, outcome |-> r.outcome, clock |-> r.clock]

\* self.verify(verifier)
Partner_verify(self, verifier, response, t1, t2) ==
    LET oauth == OAuth1(self.consumer_key, self.consumer_secret,
                        self.oauth_token, self.oauth_token_secret,
                        None, Some(verifier), self.rsa_key, SIGNATURE_RSA)
        sent == <<Request("post", PARTNER_ACCESS_TOKEN_URL, oauth,
                          self.client_cert, None)>>
        r == Partner_process_access_token_response(self, response, t1, t2)
    IN  [obj |-> r.obj, sent |-> sent, outcome |-> r.outcome, clock |-> r.clock]

\* variant: refresh sends no session handle
Partner_refresh_no_handle(self, response, t1, t2) ==
    LET oauth == OAuth1(self.consumer_key, self.consumer_secret,
                        self.oauth_token, self.oauth_token_secret,
                        None, None, self.rsa_key, SIGNATURE_RSA)
        params == [oauth_session_handle |-> None]
        sent == <<Request("post", PARTNER_ACCESS_TOKEN_URL, oauth,
                          self.client_cert, Some(params))>>
        r == Partner_process_access_token_response(self, response, t1, t2)
    IN  [obj |-> r.obj, sent |-> sent, outcome |-> r.outcome, clock |-> r.clock]

\* self.refresh()
Partner_refresh(self, response, t1, t2) ==
    LET oauth == OAuth1(self.consumer_key, self.consumer_secret,
                        self.oauth_token, self.oauth_token_secret,
                        None, None, self.rsa_key, SIGNATURE_RSA)
        params == [oauth_session_handle |-> self.oauth_session_handle]
        sent == <<Request("post", PARTNER_ACCESS_TOKEN_URL, oauth,
                          self.client_cert, Some(params))>>
        r == Partner_process_access_token_response(self, response, t1, t2)
    IN  [obj |-> r.obj, sent |-> sent, outcome |-> r.outcome, clock |-> r.clock]

\* the oauth property
Partner_oauth(self) ==
    IF self._oauth = None
    THEN [value |-> None, outcome |-> RaiseBare("XeroNotVerified")]
    ELSE [value |-> self._oauth, outcome |-> Ok]

----------------------------------------------------------------------------
(* What an object of each class answers to *)

\* variant: every class of credentials has the method refresh
ClassAttrs_with_refresh(mode) ==
    IF mode = "private" THEN {"oauth", "refresh"}
    ELSE IF mode = "public" THEN {"state", "verify", "refresh", "url", "oauth"}
    ELSE IF mode = "partner" THEN {"state", "verify", "refresh", "url", "oauth"}
    ELSE {}

\* the methods and properties the class defines (for the private class, the
\* signing object its constructor sets); any other name is an AttributeError
ClassAttrs(mode) ==
    IF mode = "private" THEN {"oauth"}
    ELSE IF mode = "public" THEN {"state", "verify", "url", "oauth"}
    ELSE IF mode = "partner" THEN {"state", "verify", "refresh", "url", "oauth"}
    ELSE {}

\* credentials.refresh() on an object of any of the classes
refresh(self, response, t1, t2) ==
    IF "refresh" \in ClassAttrs(self.mode)
    THEN Partner_refresh(self, response, t1, t2)
    ELSE [obj |-> self, sent |-> <<>>, outcome |-> RaiseBare("AttributeError"),
          clock |-> <<>>]

----------------------------------------------------------------------------
(* Python strings.  A text is a TLA+ string; s[i:j] is SubSeq.             *)

\* s.replace(old, new), old being one character: each half of s is replaced
RECURSIVE replace(_, _, _)
replace(s, old, new) ==
    IF Len(s) = 0 THEN ""
    ELSE IF Len(s) = 1 THEN (IF s = old THEN new ELSE s)
    ELSE LET half == Len(s) \div 2
         IN  replace(SubSeq(s, 1, half), old, new)
             \o replace(SubSeq(s, half + 1, Len(s)), old, new)

\* s.split(sep): the pieces between the occurrences of sep, found from left
\* to right
RECURSIVE split(_, _)
split(s, sep) ==
    LET found == {i \in 1..(Len(s) - Len(sep) + 1) :
                    SubSeq(s, i, i + Len(sep) - 1) = sep}
    IN  IF found = {} THEN <<s>>
        ELSE LET first == CHOOSE i \in found : \A j \in found : i <= j
             IN  <<SubSeq(s, 1, first - 1)>>
                 \o split(SubSeq(s, first + Len(sep), Len(s)), sep)

\* sep.join(items)
RECURSIVE join(_, _)
join(sep, items) ==
    IF items = <<>> THEN ""
    ELSE IF Len(items) = 1 THEN items[1]
    ELSE items[1] \o sep \o join(sep, Tail(items))

\* s.strip(): the blanks and line ends at both ends removed
RECURSIVE strip(_)
strip(s) ==
    IF s = "" THEN ""
    ELSE IF Head(s) \in {" ", "\n"} THEN strip(Tail(s))
    ELSE IF SubSeq(s, Len(s), Len(s)) \in {" ", "\n"}
         THEN strip(SubSeq(s, 1, Len(s) - 1))
    ELSE s

\* s.lower(): the lower-case letter for each upper-case letter
RECURSIVE lower(_)
lower(s) ==
    LET upper == "ABCDEFGHIJKLMNOPQRSTUVWXYZ"
        letters == "abcdefghijklmnopqrstuvwxyz"
    IN  IF Len(s) = 0 THEN ""
        ELSE IF Len(s) = 1
        THEN IF \E i \in 1..26 : SubSeq(upper, i, i) = s
             THEN LET i == CHOOSE i \in 1..26 : SubSeq(upper, i, i) = s
                  IN  SubSeq(letters, i, i)
             ELSE s
        ELSE LET half == Len(s) \div 2
             IN  lower(SubSeq(s, 1, half)) \o lower(SubSeq(s, half + 1, Len(s)))

\* urllib.quote(s): every character other than a letter, a digit and
\* _ . - / becomes %XX; the table has the characters the texts here contain
RECURSIVE quote(_)
quote(s) ==
    LET escapes ==
            [c \in {"\"", "&", "(", ")", "=", " ", ":", ","} |->
                CASE c = "\"" -> "%22" [] c = "&" -> "%26" [] c = "(" -> "%28"
                  [] c = ")" -> "%29" [] c = "=" -> "%3D" [] c = " " -> "%20"
                  [] c = ":" -> "%3A" [] c = "," -> "%2C"]
    IN  IF Len(s) = 0 THEN ""
        ELSE IF Len(s) = 1 THEN (IF s \in DOMAIN escapes THEN escapes[s] ELSE s)
        ELSE LET half == Len(s) \div 2
             IN  quote(SubSeq(s, 1, half)) \o quote(SubSeq(s, half + 1, Len(s)))

\* the decimal text of a natural number
RECURSIVE IntText(_)
IntText(n) ==
    IF n < 10 THEN SubSeq("0123456789", n + 1, n + 1)
    ELSE IntText(n \div 10) \o SubSeq("0123456789", (n % 10) + 1, (n % 10) + 1)

----------------------------------------------------------------------------
(* Python values.  type is the class of the value; value is the text of a  *)
(* str, the text str() gives for an int, a bool or a date, the isoformat() *)
(* text of a datetime; values are the (key, value) pairs of a dict, in the *)
(* order keys() gives them, and the items of a list, each paired with the  *)
(* key "".                                                                 *)

PyNone == [type |-> "None", value |-> "", values |-> <<>>]
PyStr(s) == [type |-> "str", value |-> s, values |-> <<>>]
PyInt(n) == [type |-> "int", value |-> IntText(n), values |-> <<>>]
PyBool(b) == [type |-> "bool", value |-> IF b THEN "True" ELSE "False", values |-> <<>>]
PyDate(iso) == [type |-> "date", value |-> iso, values |-> <<>>]
PyDatetime(iso) == [type |-> "datetime", value |-> iso, values |-> <<>>]
PyList(items) ==
    [type |-> "list", value |-> "", values |-> [i \in 1..Len(items) |-> <<"", items[i]>>]]
PyDict(items) == [type |-> "dict", value |-> "", values |-> items]
\* what a call gives when it raises: the class of the exception
PyRaise(kind) == [type |-> "raise", value |-> kind, values |-> <<>>]

\* bool(v)
bool(v) ==
    CASE v.type = "None" -> FALSE
      [] v.type = "int" -> v.value # "0"
      [] v.type = "bool" -> v.value = "True"
      [] v.type = "str" -> v.value # ""
      [] v.type \in {"list", "dict"} -> v.values # <<>>
      [] OTHER -> TRUE

\* str(v) of a scalar
str(v) ==
    CASE v.type = "None" -> "None"
      [] v.type = "datetime" -> replace(v.value, "T", " ")
      [] OTHER -> v.value

\* key in d, d[key], d[key] = v, del d[key]
In(key, d) == \E i \in 1..Len(d.values) : d.values[i][1] = key
Item(d, key) == d.values[CHOOSE i \in 1..Len(d.values) : d.values[i][1] = key][2]
SetItem(d, key, v) ==
    IF In(key, d)
    THEN PyDict([i \in 1..Len(d.values) |->
                    IF d.values[i][1] = key THEN <<key, v>> ELSE d.values[i]])
    ELSE PyDict(Append(d.values, <<key, v>>))
DelItem(d, key) == PyDict(SelectSeq(d.values, LAMBDA p : p[1] # key))

\* the datetimes of the model: strftime('%a, %d %b %Y %H:%M:%S GMT') of each
Strftime == [iso \in {"2014-01-01T00:00:00"} |-> "Wed, 01 Jan 2014 00:00:00 GMT"]

\* dateutil.parser.parse(text): the datetime of the texts it reads here;
\* any other text is a ValueError
parse(text) ==
    IF text \in {"2014-01-01T00:00:00", "2014-01-01 00:00:00", "2014-01-01"}
    THEN PyDatetime("2014-01-01T00:00:00")
    ELSE PyRaise("ValueError")

\* d.date() of a datetime
date(d) == PyDate(SubSeq(d.value, 1, 10))

----------------------------------------------------------------------------
(* class Manager *)

DECORATED_METHODS == {"get", "save", "filter", "report_filter", "all", "put"}
RAW_RESPONSE_ENTITIES == {"Reports"}
DATETIME_FIELDS ==
    {"UpdatedDateUTC", "Updated", "FullyPaidOnDate", "CreatedDateUTC",
     "ExpectedPaymentDate", "PlannedPaymentDate", "DateOfBirth", "StartDate",
     "EndDate"}
DATE_FIELDS == {"DueDate", "Date", "JournalDate"}
BOOLEAN_FIELDS == {"IsSupplier", "IsCustomer"}
MULTI_LINES ==
    {"LineItem", "Phone", "Address", "TaxRate", "JournalLine",
     "TrackingCategory", "Payment", "TimesheetLine", "NumberOfUnit",
     "EarningsRate", "DeductionType", "ReimbursementType", "LeaveType",
     "EarningsRates", "DeductionTypes", "ReimbursementTypes", "LeaveTypes",
     "Option"}
PLURAL_EXCEPTIONS ==
    [name \in {"Addresse", "TrackingCategories"} |->
        IF name = "Addresse" THEN "Address" ELSE "TrackingCategory"]

\* self.api_url.replace("api.xro/2.0", "payroll.xro/1.0")
PayrollUrl(api_url) ==
    IF api_url = XERO_API_URL THEN "https://api.xero.com/payroll.xro/1.0"
    ELSE IF api_url = PARTNER_XERO_API_URL
         THEN "https://api-partner.network.xero.com/payroll.xro/1.0"
    ELSE api_url

NoManager ==
    [exists |-> FALSE, name |-> "", oauth |-> None, api_url |-> "", singular |-> ""]

\* Manager(name, oauth, api_name): oauth is the signing object itself
Manager_init(name, oauth, api_name) ==
    [exists |-> TRUE, name |-> name, oauth |-> Some(oauth),
     api_url |-> IF api_name = "payroll" THEN PayrollUrl(oauth.api_url[1])
                 ELSE oauth.api_url[1],
     singular |-> IF name \in DOMAIN PLURAL_EXCEPTIONS THEN PLURAL_EXCEPTIONS[name]
                  ELSE IF SubSeq(name, Len(name), Len(name)) = "s"
                       THEN SubSeq(name, 1, Len(name) - 1)
                  ELSE name]

\* An XML node: its tag, its text (None when it has none) and its child
\* elements.  The document node has the root element as its only child.
Element(tag) == [tag |-> tag, text |-> None, children |-> <<>>]
SubElement(parent, child) == [parent EXCEPT !.children = Append(@, child)]

\* xml.etree.ElementTree.tostring(root): the text of the document, given as
\* the sequence of its top-level elements
tostring(root) == <<root>>

\* xml.dom.minidom.parseString(text): the document node, or None when the
\* text is not one element, which is an ExpatError
parseString(text) ==
    IF Len(text) = 1 THEN Some([Element("#document") EXCEPT !.children = text])
    ELSE None

\* the items of the tuples walk_dom builds: a text or a nested tuple
Unicode(s) == [kind |-> "unicode", text |-> s, tuple |-> <<>>]
Tuple(t) == [kind |-> "tuple", text |-> "", tuple |-> t]

\* self.walk_dom(dom): for each child node, the tag and the walk of an
\* element, the stripped text of a text node that is not blank
RECURSIVE walk_dom(_)
walk_dom(dom) ==
    LET data == IF dom.text = None THEN "" ELSE strip(dom.text[1])
        walk[i \in 0..Len(dom.children)] ==
            IF i = 0 THEN IF data # "" THEN <<Unicode(data)>> ELSE <<>>
            ELSE walk[i - 1] \o <<Unicode(dom.children[i].tag),
                                  Tuple(walk_dom(dom.children[i]))>>
    IN  walk[Len(dom.children)]

\* out[key] = v when out is a dict, out.append(v) when it is a list
Put(out, key, v) ==
    IF out.type = "dict" THEN SetItem(out, key, v)
    ELSE [out EXCEPT !.values = Append(@, <<"", v>>)]

\* self.convert_to_dict(deep_list); an exception raised on the way is the
\* result
RECURSIVE convert_to_dict(_, _)
convert_to_dict(self, deep_list) ==
    IF Len(deep_list) > 2
    THEN LET lists == SelectSeq(deep_list, LAMBDA l : l.kind = "tuple")
             keys == SelectSeq(deep_list, LAMBDA l : l.kind = "unicode")
             n == IF Len(keys) < Len(lists) THEN Len(keys) ELSE Len(lists)
             loop[i \in 0..n] ==
                 IF i = 0 THEN PyDict(<<>>)
                 ELSE LET out == loop[i - 1]
                          key == keys[i].text
                          data == lists[i].tuple
                      IN  IF out.type = "raise" THEN out
                          ELSE IF key \in MULTI_LINES \/ key = self.singular
                          THEN LET c == convert_to_dict(self, data)
                               IN  IF c.type = "raise" THEN c
                                   ELSE IF bool(out) THEN Put(out, key, c)
                                   ELSE PyList(<<c>>)
                          ELSE IF Len(data) = 1
                          THEN LET val0 == PyStr(data[1].text)
                                   val1 == IF key \in BOOLEAN_FIELDS
                                           THEN PyBool(lower(val0.value) = "true")
                                           ELSE val0
                                   val2 == IF key \in DATETIME_FIELDS
                                           THEN parse(val1.value) ELSE val1
                                   val3 == IF key \in DATE_FIELDS /\ val2.type # "raise"
                                           THEN LET d == parse(val2.value)
                                                IN  IF d.type = "raise" THEN d
                                                    ELSE date(d)
                                           ELSE val2
                               IN  IF val3.type = "raise" THEN val3
                                   ELSE Put(out, key, val3)
                          ELSE IF Len(data) > 1
                          THEN LET c == convert_to_dict(self, data)
                               IN  IF c.type = "raise" THEN c ELSE Put(out, key, c)
                          ELSE out
         IN  loop[n]
    ELSE IF Len(deep_list) = 2
    THEN LET key == deep_list[1].text
             c == convert_to_dict(self, deep_list[2].tuple)
         IN  IF c.type = "raise" THEN c ELSE PyDict(<<<<key, c>>>>)
    ELSE IF Len(deep_list) = 0 THEN PyRaise("IndexError")
    ELSE PyStr(deep_list[1].text)

\* self.dict_to_xml(root_elm, data): one child of root_elm for each key of
\* data, in the order of data.keys(); the element is returned.  The items
\* of a list are mappings.
RECURSIVE dict_to_xml(_, _)
dict_to_xml(root_elm, data) ==
    LET child(key, sub_data) ==
            LET elm == Element(key)
                is_list == sub_data.type = "list"
                is_plural == SubSeq(key, Len(key), Len(key)) = "s"
                wrapped[i \in 0..Len(sub_data.values)] ==
                    IF i = 0
                    THEN [elm |-> elm, plural_name |-> SubSeq(key, 1, Len(key) - 1)]
                    ELSE LET plural_name ==
                                 IF wrapped[i - 1].plural_name \in DOMAIN PLURAL_EXCEPTIONS
                                 THEN PLURAL_EXCEPTIONS[wrapped[i - 1].plural_name]
                                 ELSE wrapped[i - 1].plural_name
                         IN  [elm |-> SubElement(wrapped[i - 1].elm,
                                         dict_to_xml(Element(plural_name),
                                                     sub_data.values[i][2])),
                              plural_name |-> plural_name]
                merged[i \in 0..Len(sub_data.values)] ==
                    IF i = 0 THEN elm
                    ELSE dict_to_xml(merged[i - 1], sub_data.values[i][2])
            IN  IF sub_data.type = "dict" THEN dict_to_xml(elm, sub_data)
                ELSE IF is_list
                THEN IF is_plural THEN wrapped[Len(sub_data.values)].elm
                     ELSE merged[Len(sub_data.values)]
                ELSE [elm EXCEPT !.text = Some(str(sub_data))]
        each[i \in 0..Len(data.values)] ==
            IF i = 0 THEN root_elm
            ELSE SubElement(each[i - 1],
                            child(data.values[i][1], data.values[i][2]))
    IN  each[Len(data.values)]

\* self._prepare_data_for_save(data)
Manager_prepare_data_for_save(self, data) ==
    IF data.type = "list"
    THEN LET root[i \in 0..Len(data.values)] ==
                 IF i = 0 THEN Element(self.name)
                 ELSE SubElement(root[i - 1],
                          dict_to_xml(Element(self.singular), data.values[i][2]))
         IN  tostring(root[Len(data.values)])
    ELSE tostring(dict_to_xml(Element(self.singular), data))

\* self._get_results(data): falling off the end of the function gives None
Manager_get_results(self, data) ==
    IF ~In("Response", data) THEN PyRaise("KeyError")
    ELSE LET response == Item(data, "Response")
         IN  IF response.type # "dict" THEN PyRaise("AttributeError")
             ELSE LET result == IF In(self.name, response)
                                THEN Item(response, self.name) ELSE PyDict(<<>>)
                  IN  IF result.type = "list" THEN result
                      ELSE IF result.type = "dict" /\ In(self.singular, result)
                      THEN Item(result, self.singular)
                      ELSE PyNone

\* the arguments of a call of a verb: the positional id or data, the
\* headers, and the keyword arguments as a dict
NoArgs == [id |-> "", data |-> PyNone, headers |-> None, kwargs |-> PyDict(<<>>)]

\* self.get(id, headers)
Manager_get(self, id, headers) ==
    [uri |-> join("/", <<self.api_url, self.name, id>>), method |-> "get",
     body |-> None, headers |-> headers]

\* self.save_or_put(data, method, headers)
Manager_save_or_put(self, data, method, headers) ==
    [uri |-> join("/", <<self.api_url, self.name>>), method |-> method,
     body |-> Some([xml |-> Manager_prepare_data_for_save(self, data)]),
     headers |-> headers]

Manager_save(self, data) == Manager_save_or_put(self, data, "post", None)

\* variant: put sends a POST
Manager_put_as_post(self, data) == Manager_save_or_put(self, data, "post", None)

Manager_put(self, data) == Manager_save_or_put(self, data, "put", None)

\* variant: the date goes into another header
Manager_prepare_filtering_date_last_modified(val) ==
    [h \in {"Last-Modified"} |->
        IF val.type = "datetime" THEN Strftime[val.value]
        ELSE "\"" \o str(val) \o "\""]

\* self.prepare_filtering_date(val)
Manager_prepare_filtering_date(val) ==
    [h \in {"If-Modified-Since"} |->
        IF val.type = "datetime" THEN Strftime[val.value]
        ELSE "\"" \o str(val) \o "\""]

\* get_filter_params() of filter, for the key the comprehension is at
filter_get_filter_params(kwargs, key) ==
    IF key \in BOOLEAN_FIELDS
    THEN IF bool(Item(kwargs, key)) THEN "true" ELSE "false"
    ELSE IF key \in DATETIME_FIELDS THEN Item(kwargs, key).value
    ELSE "\"" \o str(Item(kwargs, key)) \o "\""

\* variant: the key of an equality predicate is left as it is
filter_generate_param_keep_separator(kwargs, key) ==
    LET parts == split(key, "__")
        value == filter_get_filter_params(kwargs, key)
    IN  IF Len(parts) = 2 /\ parts[2] \in {"contains", "startswith", "endswith"}
        THEN parts[1] \o "." \o parts[2] \o "(" \o value \o ")"
        ELSE key \o "==" \o value

\* generate_param(key) of filter
filter_generate_param(kwargs, key) ==
    LET parts == split(key, "__")
        value == filter_get_filter_params(kwargs, key)
    IN  IF Len(parts) = 2 /\ parts[2] \in {"contains", "startswith", "endswith"}
        THEN parts[1] \o "." \o parts[2] \o "(" \o value \o ")"
        ELSE replace(key, "_", ".") \o "==" \o value

\* self.filter(**kwargs)
Manager_filter(self, kwargs) ==
    LET uri == join("/", <<self.api_url, self.name>>)
        headers == IF In("since", kwargs)
                   THEN Some(Manager_prepare_filtering_date(Item(kwargs, "since")))
                   ELSE None
        kw1 == DelItem(kwargs, "since")
        offset == IF In("offset", kw1) THEN Item(kw1, "offset") ELSE PyNone
        kw2 == DelItem(kw1, "offset")
        page == IF In("page", kw2) THEN Item(kw2, "page") ELSE PyNone
        kw3 == DelItem(kw2, "page")
        params == [i \in 1..Len(kw3.values) |->
                      filter_generate_param(kw3, kw3.values[i][1])]
        query_string_items ==
            (IF params # <<>> THEN <<"where=" \o quote(join("&&", params))>> ELSE <<>>)
            \o (IF bool(offset) THEN <<"offset=" \o str(offset)>> ELSE <<>>)
            \o (IF bool(page) THEN <<"page=" \o str(page)>> ELSE <<>>)
    IN  IF ~bool(kwargs)
        THEN [uri |-> uri, method |-> "get", body |-> None, headers |-> None]
        ELSE [uri |-> IF Len(query_string_items) > 0
                      THEN uri \o "?" \o join("&", query_string_items) ELSE uri,
              method |-> "get", body |-> None, headers |-> headers]

\* get_filter_params() of report_filter, for the key the comprehension is at
report_get_filter_params(kwargs, key) ==
    IF key \in BOOLEAN_FIELDS
    THEN IF bool(Item(kwargs, key)) THEN "true" ELSE "false"
    ELSE IF key \in DATETIME_FIELDS THEN Item(kwargs, key).value
    ELSE str(Item(kwargs, key))

\* self.report_filter(id, headers, **kwargs)
Manager_report_filter(self, id, headers, kwargs) ==
    LET uri == join("/", <<self.api_url, self.name, id>>)
        kw1 == DelItem(kwargs, "since")
        params == [i \in 1..Len(kw1.values) |->
                      kw1.values[i][1] \o "="
                      \o report_get_filter_params(kw1, kw1.values[i][1])]
    IN  IF ~bool(kwargs)
        THEN [uri |-> uri, method |-> "get", body |-> None, headers |-> headers]
        ELSE [uri |-> IF params # <<>> THEN uri \o "?" \o join("&", params) ELSE uri,
              method |-> "get", body |-> None,
              headers |-> IF In("since", kwargs)
                          THEN Some(Manager_prepare_filtering_date(Item(kwargs, "since")))
                          ELSE headers]

\* self.all()
Manager_all(self) ==
    [uri |-> join("/", <<self.api_url, self.name>>), method |-> "get",
     body |-> None, headers |-> None]

\* the descriptor (uri, method, body, headers) the verb returns
Manager_verb(self, verb, args) ==
    CASE verb = "get" -> Manager_get(self, args.id, args.headers)
      [] verb = "save" -> Manager_save(self, args.data)
      [] verb = "put" -> Manager_put(self, args.data)
      [] verb = "filter" -> Manager_filter(self, args.kwargs)
      [] verb = "report_filter" ->
            Manager_report_filter(self, args.id, args.headers, args.kwargs)
      [] verb = "all" -> Manager_all(self)

\* variant: the chain has no branch for 501
Manager_get_data_status_no501(response) ==
    IF response.status_code = 200 THEN Ok
    ELSE IF response.status_code = 400 THEN Raise("XeroBadRequest", response)
    ELSE IF response.status_code = 401 THEN Raise("XeroUnauthorized", response)
    ELSE IF response.status_code = 403 THEN Raise("XeroForbidden", response)
    ELSE IF response.status_code = 404 THEN Raise("XeroNotFound", response)
    ELSE IF response.status_code = 500 THEN Raise("XeroInternalError", response)
    ELSE IF response.status_code = 503
         THEN LET payload == parse_qs(response.text)
              IN  IF DOMAIN payload # {}
                  THEN RaisePayload("XeroRateLimitExceeded", response, payload)
                  ELSE Raise("XeroNotAvailable", response)
    ELSE Raise("XeroExceptionUnknown", response)

\* the if/elif chain of _get_data.wrapper on response.status_code
Manager_get_data_status(response) ==
    IF response.status_code = 200 THEN Ok
    ELSE IF response.status_code = 400 THEN Raise("XeroBadRequest", response)
    ELSE IF response.status_code = 401 THEN Raise("XeroUnauthorized", response)
    ELSE IF response.status_code = 403 THEN Raise("XeroForbidden", response)
    ELSE IF response.status_code = 404 THEN Raise("XeroNotFound", response)
    ELSE IF response.status_code = 500 THEN Raise("XeroInternalError", response)
    ELSE IF response.status_code = 501 THEN Raise("XeroNotImplemented", response)
    ELSE IF response.status_code = 503
         THEN LET payload == parse_qs(response.text)
              IN  IF DOMAIN payload # {}
                  THEN RaisePayload("XeroRateLimitExceeded", response, payload)
                  ELSE Raise("XeroNotAvailable", response)
    ELSE Raise("XeroExceptionUnknown", response)

\* what the wrapper returns on 200: the text of a PDF or the document of a
\* raw-response entity, as they were received, or the result extracted from
\* the decoded document
Manager_get_data_result(self, response) ==
    IF response.headers["content-type"] = "application/pdf"
    THEN [type |-> "text", value |-> "", values |-> <<>>]
    ELSE LET dom == parseString(response.xml)
         IN  IF dom = None THEN PyRaise("ExpatError")
             ELSE IF self.name \in RAW_RESPONSE_ENTITIES
             THEN [type |-> "dom", value |-> "", values |-> <<>>]
             ELSE LET data == convert_to_dict(self, walk_dom(dom[1]))
                  IN  IF data.type = "raise" THEN data
                      ELSE Manager_get_results(self, data)

\* the request the wrapper sends for a descriptor
Manager_request(self, d) ==
    Request(d.method, d.uri, self.oauth[1], self.oauth[1].client_cert, None)
    @@ [data |-> d.body, headers |-> d.headers]

\* variant: a request answered 503 is sent again
Manager_get_data_retry(self, descriptor, response) ==
    LET request == Manager_request(self, descriptor)
        status == Manager_get_data_status(response)
        result == Manager_get_data_result(self, response)
    IN  [sent |-> IF response.status_code = 503 THEN <<request, request>>
                  ELSE <<request>>,
         outcome |-> IF status.kind = "ok" /\ result.type = "raise"
                     THEN RaiseBare(result.value) ELSE status,
         value |-> IF status.kind = "ok" /\ result.type # "raise"
                   THEN result ELSE PyNone]

\* _get_data.wrapper: the request of the descriptor that the verb returned is
\* sent, and the response is turned into a result or an error
Manager_get_data(self, descriptor, response) ==
    LET request == Manager_request(self, descriptor)
        status == Manager_get_data_status(response)
        result == Manager_get_data_result(self, response)
    IN  [sent |-> <<request>>,
         outcome |-> IF status.kind = "ok" /\ result.type = "raise"
                     THEN RaiseBare(result.value) ELSE status,
         value |-> IF status.kind = "ok" /\ result.type # "raise"
                   THEN result ELSE PyNone]

----------------------------------------------------------------------------
(* What the caller gives a manager and what the API answers *)

ManagerNames == {"Invoices"}
ApiNames == {"accounting"}
RecordIds == {"id1"}

\* an element holding a text, and an element holding child elements
TextElement(tag, text) == [Element(tag) EXCEPT !.text = Some(text)]
Parent(tag, children) == [Element(tag) EXCEPT !.children = children]

\* the response of the API: its status, its content type and its text,
\* given by what each reader makes of it: text is the url-encoded pairs and
\* xml the top-level elements of the XML document
ApiResponse(status_code, text, xml) ==
    [status_code |-> status_code, text |-> text, xml |-> xml,
     headers |-> [x \in {"content-type"} |-> "text/xml"]]

\* the arguments a verb is called with
ArgsOf(verb) ==
    CASE verb \in {"get", "report_filter"} -> [NoArgs EXCEPT !.id = "id1"]
      [] verb \in {"save", "put"} ->
            [NoArgs EXCEPT !.data = PyDict(<<<<"Name", PyStr("John")>>>>)]
      [] verb = "filter" ->
            [NoArgs EXCEPT !.kwargs = PyDict(<<<<"Status", PyStr("PAID")>>>>)]
      [] OTHER -> NoArgs

\* the responses the API gives to a manager
ApiResponses ==
    {ApiResponse(200, <<>>, <<Parent("Response", <<Parent("Invoices",
            <<Parent("Invoice", <<TextElement("Name", "John")>>)>>)>>)>>)}
    \cup {ApiResponse(503, b, <<>>) : b \in ThrottleBodies}
    \cup {ApiResponse(s, <<>>, <<>>) : s \in Statuses \ {200, 503}}

----------------------------------------------------------------------------
(* The program: one credentials object, a manager bound to it, and a copy  *)
(* of the credentials rebuilt from the saved state.                        *)

NoCall ==
    [op |-> "none", kw |-> None, response |-> None, sent |-> <<>>,
     outcome |-> Ok, value |-> NoCred, before |-> NoCred,
     received_at |-> 0, clock |-> <<>>]

\* the record of a call: the response is recorded when a request was sent;
\* before is the credentials object as it was when the call was made
Call(op, kw, response, sent, outcome, value, clock) ==
    [op |-> op, kw |-> kw,
     response |-> IF sent = <<>> THEN None ELSE Some(response),
     sent |-> sent, outcome |-> outcome, value |-> value, before |-> cred,
     received_at |-> now, clock |-> clock]

\* the keyword arguments of the constructors
TokenArgs ==
    {<<None, None>>, <<Some(""), Some("rs")>>, <<Some("rt"), None>>,
     <<Some("rt"), Some("rs")>>}

UriArgs == {<<Some("cb"), None>>}

PublicKw ==
    {[callback_uri |-> u[1], verified |-> v, oauth_token |-> t[1],
      oauth_token_secret |-> t[2], scope |-> u[2]] :
        u \in UriArgs, v \in BOOLEAN, t \in TokenArgs}

PartnerKw ==
    {[callback_uri |-> u[1], verified |-> v, oauth_token |-> t[1],
      oauth_token_secret |-> t[2], oauth_session_handle |-> x[1],
      oauth_expires_at |-> x[2], oauth_authorization_expires_at |-> x[3],
      scope |-> u[2]] :
        u \in UriArgs, v \in BOOLEAN, t \in TokenArgs,
        x \in {<<None, None, None>>}}
    \cup {[callback_uri |-> Some("cb"), verified |-> TRUE,
           oauth_token |-> Some("at1"), oauth_token_secret |-> Some("as1"),
           oauth_session_handle |-> Some("h1"), oauth_expires_at |-> Some(1800),
           oauth_authorization_expires_at |-> Some(30), scope |-> None]}

RequestTokenResponses == Responses(PlainBodies(RequestTokens))
PublicAccessResponses == Responses(PlainBodies(AccessTokens))
PartnerAccessResponses == Responses(PartnerBodies)

\* the constructor sends a request unless it is given a token and a secret
Asked(kw, responses) ==
    IF Truthy(kw.oauth_token) /\ Truthy(kw.oauth_token_secret)
    THEN {CHOOSE r \in responses : TRUE} ELSE responses

Init ==
    /\ cred = NoCred
    /\ mgr = NoManager
    /\ now = 0
    /\ last = NoCall

\* credentials = PublicCredentials(consumer_key, consumer_secret, **kw)
ConstructPublic ==
    /\ cred.mode = "none"
    /\ \E kw \in PublicKw :
       \E response \in Asked(kw, RequestTokenResponses) :
         LET r == PublicCredentials_init(ConsumerKey, ConsumerSecret, kw, response)
         IN  /\ cred' = r.obj
             /\ last' = Call("init", Some(kw), response, r.sent, r.outcome,
                             r.obj, <<>>)
    /\ UNCHANGED <<mgr, now>>

\* credentials = PartnerCredentials(consumer_key, consumer_secret, rsa_key,
\*                                  client_cert, **kw)
ConstructPartner ==
    /\ cred.mode = "none"
    /\ \E kw \in PartnerKw :
       \E response \in Asked(kw, RequestTokenResponses) :
         LET r == PartnerCredentials_init(ConsumerKey, ConsumerSecret, RsaKey,
                                          ClientCert, kw, response)
         IN  /\ cred' = r.obj
             /\ last' = Call("init", Some(kw), response, r.sent, r.outcome,
                             r.obj, <<>>)
    /\ UNCHANGED <<mgr, now>>

\* credentials.verify(verifier) on public credentials
PublicVerify ==
    /\ cred.mode = "public"
    /\ \E verifier \in Verifiers, response \in PublicAccessResponses :
         LET r == Public_verify(cred, verifier, response)
         IN  /\ cred' = r.obj
             /\ last' = Call("verify", None, response, r.sent, r.outcome,
                             NoCred, <<>>)
    /\ UNCHANGED <<mgr, now>>

\* the clock readings a call may take: the clock advances by at most
\* MaxTick between two readings
Readings ==
    {t \in (now..MaxTime) \X (now..MaxTime) :
        t[1] - now <= MaxTick /\ t[1] <= t[2] /\ t[2] - t[1] <= MaxTick}

\* the clock is read only while a response of status 200 is processed
ReadingsFor(response) ==
    IF response.status_code = 200 THEN Readings ELSE {<<now, now>>}

ClockAfter(clock) == IF clock = <<>> THEN now ELSE clock[Len(clock)]

\* credentials.verify(verifier) on partner credentials
PartnerVerify ==
    /\ cred.mode = "partner"
    /\ \E verifier \in Verifiers, response \in PartnerAccessResponses :
       \E t \in ReadingsFor(response) :
         LET r == Partner_verify(cred, verifier, response, t[1], t[2])
         IN  /\ cred' = r.obj
             /\ last' = Call("verify", None, response, r.sent, r.outcome,
                             NoCred, r.clock)
             /\ now' = ClockAfter(r.clock)
    /\ UNCHANGED mgr

\* credentials.refresh() on partner credentials
PartnerRefresh ==
    /\ cred.mode = "partner"
    /\ \E response \in PartnerAccessResponses :
       \E t \in ReadingsFor(response) :
         LET r == Partner_refresh(cred, response, t[1], t[2])
         IN  /\ cred' = r.obj
             /\ last' = Call("refresh", None, response, r.sent, r.outcome,
                             NoCred, r.clock)
             /\ now' = ClockAfter(r.clock)
    /\ UNCHANGED mgr

\* credentials = PrivateCredentials(consumer_key, rsa_key)
ConstructPrivate ==
    /\ cred.mode = "none"
    /\ LET r == PrivateCredentials_init(ConsumerKey, RsaKey)
       IN  /\ cred' = r.obj
           /\ last' = Call("init", None, None, r.sent, r.outcome, r.obj, <<>>)
    /\ UNCHANGED <<mgr, now>>

\* credentials.refresh() on public or private credentials
OtherRefresh ==
    /\ cred.mode \in {"public", "private"}
    /\ \E response \in PartnerAccessResponses :
       \E t \in ReadingsFor(response) :
         LET r == refresh(cred, response, t[1], t[2])
         IN  /\ cred' = r.obj
             /\ last' = Call("refresh", None, response, r.sent, r.outcome,
                             NoCred, r.clock)
             /\ now' = ClockAfter(r.clock)
    /\ UNCHANGED mgr

\* the oauth and state properties of whichever class the object has; oauth
\* is a plain attribute of private credentials
oauth(self) ==
    IF self.mode = "partner" THEN Partner_oauth(self)
    ELSE IF self.mode = "private" THEN [value |-> self.oauth, outcome |-> Ok]
    ELSE Public_oauth(self)

state(self) == IF self.mode = "partner" THEN Partner_state(self) ELSE Public_state(self)

\* manager = Manager(name, credentials.oauth, api_name)
CreateManager ==
    /\ cred.mode \in {"public", "partner", "private"}
    /\ \E name \in ManagerNames, api_name \in ApiNames :
         LET o == oauth(cred)
         IN  /\ mgr' = IF o.outcome.kind = "ok"
                       THEN Manager_init(name, o.value[1], api_name)
                       ELSE mgr
             /\ last' = Call("oauth", None, None, <<>>, o.outcome, NoCred, <<>>)
    /\ UNCHANGED <<cred, now>>

\* what a call of the wrapper leaves: the request it sent and what it gave
Returned(verb, args, response, r) ==
    Call(verb, Some(args), response, r.sent, r.outcome, r.value, <<>>)

\* manager.<verb>(...) with the arguments args, answered by response
Invoke(verb, args, responses) ==
    LET descriptor == Manager_verb(mgr, verb, args)
    IN  \E response \in responses :
          last' = Returned(verb, args, response,
                           Manager_get_data(mgr, descriptor, response))

\* manager.<verb>(...)
Execute ==
    /\ mgr.exists
    /\ \E verb \in DECORATED_METHODS :
         Invoke(verb, ArgsOf(verb), ApiResponses)
    /\ UNCHANGED <<cred, mgr, now>>

\* the keyword arguments that the entries of a saved state make
KwOfState(st) ==
    [k \in {"callback_uri", "oauth_token", "oauth_token_secret",
            "oauth_session_handle", "oauth_expires_at",
            "oauth_authorization_expires_at", "scope"}
        |-> IF k \in DOMAIN st THEN Some(st[k]) ELSE None]
    @@ [verified |-> IF "verified" \in DOMAIN st THEN st["verified"] ELSE FALSE]

\* <class of credentials>(**credentials.state), with the RSA key and the
\* client certificate for the partner class; the copy is last.value
Reconstruct ==
    /\ cred.mode \in {"public", "partner"}
    /\ LET st == state(cred)
           kw == KwOfState(st)
       IN  \E response \in Asked(kw, RequestTokenResponses) :
             LET r == IF cred.mode = "partner"
                      THEN PartnerCredentials_init(st["consumer_key"],
                               st["consumer_secret"], RsaKey, ClientCert,
                               kw, response)
                      ELSE PublicCredentials_init(st["consumer_key"],
                               st["consumer_secret"], kw, response)
             IN  last' = Call("reconstruct", Some(kw), response, r.sent,
                              r.outcome, r.obj, <<>>)
    /\ UNCHANGED <<cred, mgr, now>>

Next ==
    \/ ConstructPrivate
    \/ ConstructPublic
    \/ ConstructPartner
    \/ PublicVerify
    \/ PartnerVerify
    \/ PartnerRefresh
    \/ OtherRefresh
    \/ CreateManager
    \/ Execute
    \/ Reconstruct

Spec == Init /\ [][Next]_vars

----------------------------------------------------------------------------
(* The manager on its own: a manager of any name bound to private          *)
(* credentials, its verbs called with the arguments and answered with the  *)
(* documents below, and the XML codec applied to the records below.        *)

MaxItems == 2       \* longest list of records, most records of a document
MaxPage == 1        \* largest offset and page

\* the collection and the API a manager is created for
ManagerKinds ==
    {<<"Invoices", "accounting">>, <<"Invoices", "payroll">>,
     <<"Addresses", "accounting">>, <<"TrackingCategories", "accounting">>,
     <<"Reports", "accounting">>}

\* the criteria of filter other than since, offset and page, in the order
\* kwargs.keys() gives them
Criteria ==
    {<<>>,
     <<<<"Name__Contains", PyStr("John")>>>>,
     <<<<"Name__contains", PyStr("John")>>>>,
     <<<<"Status", PyStr("PAID")>>>>,
     <<<<"Status", PyStr("PAID")>>, <<"Name__startswith", PyStr("John")>>>>,
     <<<<"IsCustomer", PyBool(TRUE)>>, <<"Status", PyStr("PAID")>>>>,
     <<<<"Invoice_Number", PyStr("INV1")>>, <<"Name__endswith", PyStr("John")>>>>,
     <<<<"Name__like", PyStr("John")>>>>,
     <<<<"Contact__Name__contains", PyStr("John")>>>>,
     <<<<"Name___contains", PyStr("John")>>>>}

Sinces ==
    {<<>>, <<<<"since", PyDatetime("2014-01-01T00:00:00")>>>>,
     <<<<"since", PyStr("2014-01-01")>>>>}
\* offset or page: absent, or a number from 0 up
Paging(key) == {<<>>} \cup {<<<<key, PyInt(n)>>>> : n \in 0..MaxPage}

\* the keyword arguments filter is called with: since, offset and page in
\* every combination with no criterion and with one, and since alone with
\* each of the other criteria
FilterKwargs ==
    {PyDict(s \o o \o c \o p) :
        s \in Sinces, o \in Paging("offset"), p \in Paging("page"),
        c \in {<<>>, <<<<"Status", PyStr("PAID")>>>>}}
    \cup {PyDict(s \o c) : s \in Sinces, c \in Criteria}

\* the keyword arguments report_filter is called with
ReportKwargs ==
    {PyDict(s \o c) :
        s \in Sinces, c \in {<<>>, <<<<"date", PyStr("2014-01-01")>>>>}}

\* the i-th record of a list
Line(i) ==
    PyDict(<<<<"Description", PyStr("d" \o IntText(i))>>,
             <<"Quantity", PyStr(IntText(i))>>>>)
Lines(k) == PyList([i \in 1..k |-> Line(i)])

\* the records given to the codec and to save and put: mappings of the
\* fields of the tables, nested mappings, and lists of 0..MaxItems records
\* under plural and non-plural keys
Records ==
    {PyDict(<<<<"Name", PyStr("John")>>>>),
     PyDict(<<<<"IsCustomer", PyBool(TRUE)>>>>),
     PyDict(<<<<"Name", PyStr("John")>>, <<"Status", PyStr("PAID")>>>>),
     PyDict(<<<<"Name", PyStr("John")>>, <<"IsCustomer", PyBool(FALSE)>>>>),
     PyDict(<<<<"UpdatedDateUTC", PyDatetime("2014-01-01T00:00:00")>>,
              <<"DueDate", PyDate("2014-01-01")>>>>),
     PyDict(<<<<"Name", PyStr("John")>>, <<"Contact", Line(1)>>>>)}
    \cup {PyDict(<<<<"Name", PyStr("John")>>, <<key, Lines(k)>>>>) :
            key \in {"LineItems", "Phone", "Addresses", "TrackingCategories",
                     "Invoices"},
            k \in 0..MaxItems}

\* what save and put are given: a record, or a list of records
SaveData ==
    {PyDict(<<<<"Name", PyStr("John")>>, <<"Status", PyStr("PAID")>>>>),
     PyDict(<<<<"Name", PyStr("John")>>, <<"LineItems", Lines(MaxItems)>>>>)}
    \cup {Lines(k) : k \in 0..MaxItems}

\* the documents the API answers with: the Response wrapper holding the
\* collection with k records of a tag
Document(collection, tag, k) ==
    LET record(i) ==
            Parent(tag, <<TextElement("Id", "i" \o IntText(i)),
                          TextElement("Name", "n" \o IntText(i))>>)
    IN  Parent("Response",
               <<TextElement("Id", "r1"), TextElement("Status", "OK"),
                 Parent(collection, [i \in 1..k |-> record(i)])>>)

\* the texts the API answers with: documents of each collection, a Response
\* without collection, and a text that is no document
Documents ==
    {<<Document(c[1], c[2], k)>> :
        c \in {<<"Invoices", "Invoice">>, <<"Invoices", "Warning">>,
               <<"TrackingCategories", "TrackingCategory">>},
        k \in 0..MaxItems}
    \cup {<<Parent("Response", <<TextElement("Id", "r1"),
                                 TextElement("Status", "OK")>>)>>,
          <<>>}

ManagerInit ==
    /\ cred = PrivateCredentials_init(ConsumerKey, RsaKey).obj
    /\ mgr = NoManager
    /\ now = 0
    /\ last = NoCall

\* manager = Manager(name, credentials.oauth, api_name)
Bind ==
    /\ \E kind \in ManagerKinds :
         LET o == oauth(cred)
         IN  /\ mgr' = Manager_init(kind[1], o.value[1], kind[2])
             /\ last' = Call("oauth", None, None, <<>>, o.outcome, NoCred, <<>>)
    /\ UNCHANGED <<cred, now>>

\* the answer to the calls whose descriptor is what matters
Answered == {ApiResponse(200, <<>>, <<Document("Invoices", "Invoice", 1)>>)}

\* manager.filter(**kwargs)
Filter ==
    /\ mgr.exists
    /\ \E kwargs \in FilterKwargs :
         Invoke("filter", [NoArgs EXCEPT !.kwargs = kwargs], Answered)
    /\ UNCHANGED <<cred, mgr, now>>

\* manager.report_filter(id, **kwargs)
Report ==
    /\ mgr.exists
    /\ \E id \in RecordIds, kwargs \in ReportKwargs :
         Invoke("report_filter", [NoArgs EXCEPT !.id = id, !.kwargs = kwargs],
                Answered)
    /\ UNCHANGED <<cred, mgr, now>>

\* manager.save(data), manager.put(data)
Save ==
    /\ mgr.exists
    /\ \E verb \in {"save", "put"}, data \in SaveData :
         Invoke(verb, [NoArgs EXCEPT !.data = data], Answered)
    /\ UNCHANGED <<cred, mgr, now>>

\* manager.get(id), manager.all(), answered 200 with a document
Fetch ==
    /\ mgr.exists
    /\ \E verb \in {"get", "all"} :
         Invoke(verb, ArgsOf(verb),
                {ApiResponse(200, <<>>, xml) : xml \in Documents})
    /\ UNCHANGED <<cred, mgr, now>>

\* decoding what encoding a record gives:
\* convert_to_dict(walk_dom(dict_to_xml(Element(singular), data)))
Codec ==
    /\ mgr.exists
    /\ \E data \in Records :
         LET root_elm == dict_to_xml(Element(mgr.singular), data)
             decoded == convert_to_dict(mgr, walk_dom(root_elm))
         IN  last' = Call("codec", Some([NoArgs EXCEPT !.data = data]), None,
                         <<>>,
                         IF decoded.type = "raise" THEN RaiseBare(decoded.value)
                         ELSE Ok,
                         decoded, <<>>)
    /\ UNCHANGED <<cred, mgr, now>>

ManagerNext ==
    \/ Bind
    \/ Filter
    \/ Report
    \/ Save
    \/ Fetch
    \/ Codec

ManagerSpec == ManagerInit /\ [][ManagerNext]_vars

----------------------------------------------------------------------------
(* Properties *)

Verbs == {"get", "all", "filter", "report_filter", "save", "put"}

\* requesting the signing context fails with the not-verified error
NotVerified(c) == oauth(c).outcome.kind = "XeroNotVerified"

\* the url-encoded text has a pair of key k whose value is not blank
Carries(text, k) == \E i \in 1..Len(text) : text[i][1] = k /\ text[i][2] # ""

Received(status_code) ==
    last.response # None /\ last.response[1].status_code = status_code

\* the last call was verify on public credentials that were not verified
UnverifiedPublicVerify ==
    cred.mode = "public" /\ last.op = "verify" /\ ~last.before.verified

\* C1 (as claimed): on public credentials constructed without verified=True,
\* the oauth accessor fails with the not-verified error in every state before
\* the first verify that received HTTP 200 and succeeds in every state after
\* a verify that received HTTP 200.
C1_Original ==
    /\ cred.mode = "public" /\ ~cred.verified => NotVerified(cred)
    /\ UnverifiedPublicVerify /\ Received(200) => ~NotVerified(cred)
    /\ UnverifiedPublicVerify /\ ~Received(200) => NotVerified(cred)
    /\ cred.mode = "public" /\ ~NotVerified(last.before) => ~NotVerified(cred)

\* the verify received HTTP 200 with a token and a token secret in its body
ReceivedTokenPair ==
    /\ Received(200)
    /\ Carries(last.response[1].text, "oauth_token")
    /\ Carries(last.response[1].text, "oauth_token_secret")

\* C1 (amended): on public credentials constructed without verified=True,
\* the oauth accessor fails with the not-verified error in every state before
\* the first verify that received HTTP 200 with both oauth_token and
\* oauth_token_secret in its body (the verifies that return without
\* raising), and succeeds in every state after such a verify.
C1_NotVerifiedUntilVerify ==
    /\ cred.mode = "public" /\ ~cred.verified => NotVerified(cred)
    /\ UnverifiedPublicVerify /\ ReceivedTokenPair
         => ~NotVerified(cred) /\ last.outcome.kind = "ok"
    /\ UnverifiedPublicVerify /\ ~ReceivedTokenPair
         => NotVerified(cred) /\ last.outcome.kind # "ok"
    /\ cred.mode = "public" /\ ~NotVerified(last.before) => ~NotVerified(cred)

\* C1 witness: a verify has made the accessor of unverified public
\* credentials succeed
C1_Witness ==
    /\ UnverifiedPublicVerify /\ ReceivedTokenPair
    /\ NotVerified(last.before) /\ ~NotVerified(cred)

\* C2 (as claimed): in every state of public or partner credentials, the
\* verified flag is true if and only if a token and a token secret are
\* stored and the signing context can be obtained.
C2_VerifiedIffSigning ==
    cred.mode \in {"public", "partner"} =>
        (cred.verified <=> /\ cred.oauth_token # None
                           /\ cred.oauth_token_secret # None
                           /\ ~NotVerified(cred))

\* the state of the credential state machine
Phase(c) ==
    IF c.mode = "none" \/ c.oauth_token = None THEN "Unrequested"
    ELSE IF c.verified THEN "Verified" ELSE "RequestIssued"

\* C3 (as claimed): a call moves credentials along Unrequested ->
\* RequestIssued -> Verified only; credentials holding a request token
\* become Verified only through a verify that received HTTP 200, and a
\* refresh of partner credentials that are not Verified never makes them
\* Verified.
C3_Lifecycle ==
    last.before.mode # "none" =>
        /\ Phase(last.before) # Phase(cred)
             => Phase(last.before) = "RequestIssued" /\ Phase(cred) = "Verified"
        /\ Phase(last.before) = "RequestIssued" /\ Phase(cred) = "Verified"
             => last.op = "verify" /\ Received(200)
        /\ last.op = "refresh" /\ Phase(last.before) # "Verified"
             => Phase(cred) # "Verified"

\* C4 (as claimed): every request a manager bound to partner credentials
\* sends is signed with the token pair the credentials hold now.
C4_SignedWithCurrentPair ==
    cred.mode = "partner" /\ last.op \in Verbs =>
        \A i \in 1..Len(last.sent) :
            /\ last.sent[i].auth.resource_owner_key = cred.oauth_token
            /\ last.sent[i].auth.resource_owner_secret = cred.oauth_token_secret

\* the error of each status of the table
ErrorsOf(status_code) ==
    CASE status_code = 400 -> {"XeroBadRequest"}
      [] status_code = 401 -> {"XeroUnauthorized"}
      [] status_code = 403 -> {"XeroForbidden"}
      [] status_code = 404 -> {"XeroNotFound"}
      [] status_code = 500 -> {"XeroInternalError"}
      [] status_code = 501 -> {"XeroNotImplemented"}
      [] status_code = 503 -> {"XeroRateLimitExceeded", "XeroNotAvailable"}
      [] OTHER -> {"XeroExceptionUnknown"}

\* C5: whichever call received the response (a constructor, verify,
\* refresh, a verb of the manager), status 200 raises no HTTP error, every
\* other status raises the error of the table, 503 raises
\* XeroRateLimitExceeded or XeroNotAvailable, a status outside the table
\* raises XeroExceptionUnknown, and the error carries the response.
C5_StatusTable ==
    last.response # None =>
        IF Received(200)
        THEN last.outcome.response = None
        ELSE /\ last.outcome.kind \in ErrorsOf(last.response[1].status_code)
             /\ last.outcome.response = last.response

\* C5 witness: a verb of the manager received a status outside the table
C5_Witness ==
    /\ last.op \in Verbs /\ Received(302)
    /\ last.outcome.kind = "XeroExceptionUnknown"

\* C6: on HTTP 503, whichever call received it, a body with at least one
\* pair whose value is not blank raises XeroRateLimitExceeded carrying the
\* parsed body, and any other body raises XeroNotAvailable.
C6_Throttle ==
    Received(503) =>
        IF \E i \in 1..Len(last.response[1].text) : last.response[1].text[i][2] # ""
        THEN /\ last.outcome.kind = "XeroRateLimitExceeded"
             /\ last.outcome.payload = Some(parse_qs(last.response[1].text))
        ELSE /\ last.outcome.kind = "XeroNotAvailable"
             /\ last.outcome.payload = None

\* C6 witness: a 503 whose body has only a blank value was taken as offline
C6_Witness ==
    /\ Received(503) /\ last.response[1].text # <<>>
    /\ last.outcome.kind = "XeroNotAvailable"

\* the constructor was given a token and a token secret
GivenTokenPair(kw) ==
    /\ kw.oauth_token # None /\ kw.oauth_token[1] # ""
    /\ kw.oauth_token_secret # None /\ kw.oauth_token_secret[1] # ""

\* C7: verify, the refresh of partner credentials and every verb of the
\* manager send exactly one request whatever the response; the constructor
\* of public or partner credentials sends exactly one request when it is not
\* given both a token and a token secret, and none when it is.
C7_OneRequest ==
    /\ last.op \in {"verify"} \cup Verbs => Len(last.sent) = 1
    /\ last.op = "refresh" /\ last.before.mode = "partner" => Len(last.sent) = 1
    /\ last.op \in {"init", "reconstruct"} /\ last.kw # None =>
         Len(last.sent) = IF GivenTokenPair(last.kw[1]) THEN 0 ELSE 1

\* C7 witness: a save that was answered 503 has sent one request
C7_Witness == last.op = "save" /\ Received(503) /\ Len(last.sent) = 1

\* the value of a field of the response the last call received
FieldOf(k) == parse_qs(last.response[1].text)[k][1]

PartnerExchange ==
    cred.mode = "partner" /\ last.op \in {"verify", "refresh"} /\ Received(200)

PublicStateKeys ==
    {"consumer_key", "consumer_secret", "callback_uri", "verified",
     "oauth_token", "oauth_token_secret", "scope"}

PartnerStateKeys ==
    PublicStateKeys \cup {"oauth_session_handle", "oauth_expires_at",
                          "oauth_authorization_expires_at"}

\* C9: the keys of state are exactly those of the listed attributes (seven
\* for public, ten for partner credentials) whose value is not None, and
\* no other key.
C9_StateKeys ==
    cred.mode \in {"public", "partner"} =>
        DOMAIN state(cred) =
            {k \in IF cred.mode = "public" THEN PublicStateKeys
                   ELSE PartnerStateKeys : k = "verified" \/ cred[k] # None}

\* C9 witness: partner credentials whose state has the session handle and
\* the expiries and lacks the scope, which is None
C9_Witness ==
    /\ cred.mode = "partner" /\ cred.scope = None
    /\ {"oauth_session_handle", "oauth_expires_at",
        "oauth_authorization_expires_at"} \subseteq DOMAIN state(cred)
    /\ "scope" \notin DOMAIN state(cred)

\* C10 (as claimed): constructing credentials of the same class from the
\* entries of state sends no request and gives credentials whose state is
\* equal and whose signing context is available exactly when the
\* original's is.
C10_RoundTrip ==
    last.op = "reconstruct" =>
        /\ last.sent = <<>>
        /\ last.outcome.kind = "ok"
        /\ state(last.value) = state(cred)
        /\ NotVerified(last.value) <=> NotVerified(cred)

\* C11: refresh on public or private credentials raises an error, sends no
\* request and leaves every attribute of the credentials as it was; refresh
\* on partner credentials sends the access-token request with the stored
\* session handle.
C11_RefreshPartnerOnly ==
    last.op = "refresh" =>
        IF last.before.mode \in {"public", "private"}
        THEN /\ last.outcome.kind # "ok"
             /\ last.sent = <<>>
             /\ cred = last.before
        ELSE /\ Len(last.sent) = 1
             /\ last.sent[1].url = PARTNER_ACCESS_TOKEN_URL
             /\ last.sent[1].params =
                    Some([oauth_session_handle |-> last.before.oauth_session_handle])

\* C11 witness: refresh was called on verified public credentials and raised
C11_Witness ==
    /\ last.op = "refresh" /\ cred.mode = "public" /\ cred.verified
    /\ last.outcome.kind = "AttributeError"

\* a and b are the same value, the keys of a mapping taken in any order
RECURSIVE Same(_, _)
Same(a, b) ==
    /\ a.type = b.type
    /\ a.value = b.value
    /\ Len(a.values) = Len(b.values)
    /\ \A i \in 1..Len(a.values) :
         IF a.type = "dict"
         THEN /\ In(a.values[i][1], b)
              /\ Same(a.values[i][2], Item(b, a.values[i][1]))
         ELSE Same(a.values[i][2], b.values[i][2])

\* C12 (as claimed): for every record R made of the fields of the tables,
\* nested mappings and lists of length 0, 1 and more under plural and
\* non-plural keys, decoding the tree that encoding R gives yields R, up to
\* the order of the keys of mappings.
C12_RoundTrip ==
    last.op = "codec" =>
        /\ last.outcome.kind = "ok"
        /\ Same(last.value, last.kw[1].data)

\* C13 (as claimed): the singular a manager derives is "Address" for
\* "Addresses", "TrackingCategory" for "TrackingCategories" and "Invoice" for
\* "Invoices", and for a name without an entry in the exception table the
\* name without its trailing "s", or the name itself when it has none.
C13_Singular ==
    mgr.exists =>
        CASE mgr.name = "Addresses" -> mgr.singular = "Address"
          [] mgr.name = "TrackingCategories" -> mgr.singular = "TrackingCategory"
          [] mgr.name = "Invoices" -> mgr.singular = "Invoice"
          [] OTHER ->
               mgr.singular =
                   IF SubSeq(mgr.name, Len(mgr.name), Len(mgr.name)) = "s"
                   THEN SubSeq(mgr.name, 1, Len(mgr.name) - 1)
                   ELSE mgr.name

\* the keyword arguments of the last call, and the request it sent
Kwargs == last.kw[1].kwargs
Sent == last.sent[1]

\* the URI of the collection of the manager
CollectionUri == mgr.api_url \o "/" \o mgr.name

\* C14 (as claimed): filter(Name__Contains="John") has the where parameter
\* Name.Contains("John"), and filter(Status="PAID") has the where parameter
\* Status=="PAID", each url-escaped and the whole of the parameter.
C14_FilterExamples ==
    last.op = "filter" =>
        /\ Kwargs = PyDict(<<<<"Name__Contains", PyStr("John")>>>>)
             => Sent.url = CollectionUri \o "?where=Name.Contains%28%22John%22%29"
        /\ Kwargs = PyDict(<<<<"Status", PyStr("PAID")>>>>)
             => Sent.url = CollectionUri \o "?where=Status%3D%3D%22PAID%22"

\* sub occurs in s
Contains(s, sub) ==
    \E i \in 1..(Len(s) - Len(sub) + 1) : SubSeq(s, i, i + Len(sub) - 1) = sub

\* C15: for every call of filter, when since is among the criteria the
\* headers of the descriptor contain If-Modified-Since and since is not in
\* the where clause; when since is the only criterion the URI has no query
\* string; when since is not among the criteria there are no headers.
C15_Since ==
    last.op = "filter" =>
        /\ In("since", Kwargs)
             => /\ Sent.headers # None
                /\ "If-Modified-Since" \in DOMAIN Sent.headers[1]
                /\ ~Contains(Sent.url, "since")
        /\ In("since", Kwargs) /\ Len(Kwargs.values) = 1
             => Sent.url = CollectionUri
        /\ ~In("since", Kwargs) => Sent.headers = None

\* C15 witness: filter(since=datetime(2014, 1, 1), Status="PAID") has sent the
\* header and a where clause of the status alone
C15_Witness ==
    /\ last.op = "filter" /\ In("since", Kwargs) /\ In("Status", Kwargs)
    /\ Sent.headers # None
    /\ Sent.headers[1]["If-Modified-Since"] = "Wed, 01 Jan 2014 00:00:00 GMT"
    /\ Sent.url = CollectionUri \o "?where=Status%3D%3D%22PAID%22"

\* the parameters of the query string of a URI, and whether one is the where
\* parameter
QueryItems(uri) ==
    LET parts == split(uri, "?")
    IN  IF Len(parts) = 1 THEN <<>> ELSE split(parts[2], "&")

IsWhere(item) == Len(item) >= 6 /\ SubSeq(item, 1, 6) = "where="

\* C16 (as claimed): for every call of filter with offset=n and/or page=m, n
\* and m being integers from 0 up, the query string has offset=n and/or
\* page=m once each, in the order where, offset, page, and neither is in the
\* where clause.
C16_Paging ==
    last.op = "filter" =>
        LET items == QueryItems(Sent.url)
            paging ==
                (IF In("offset", Kwargs)
                 THEN <<"offset=" \o Item(Kwargs, "offset").value>> ELSE <<>>)
                \o (IF In("page", Kwargs)
                    THEN <<"page=" \o Item(Kwargs, "page").value>> ELSE <<>>)
        IN  /\ SelectSeq(items, LAMBDA item : ~IsWhere(item)) = paging
            /\ \A i \in 1..Len(items) :
                 IsWhere(items[i]) =>
                     /\ i = 1
                     /\ ~Contains(items[i], "offset")
                     /\ ~Contains(items[i], "page")

\* the entry under the name of the manager in the Response wrapper of the
\* document the last call received, an empty mapping when there is none
Entry ==
    LET data == convert_to_dict(mgr, walk_dom(parseString(last.response[1].xml)[1]))
        response == Item(data, "Response")
    IN  IF In(mgr.name, response) THEN Item(response, mgr.name) ELSE PyDict(<<>>)

\* the last call received HTTP 200 with a document that has the Response
\* wrapper, for a manager that is not raw-response
ReceivedWrapper ==
    /\ last.op \in Verbs /\ Received(200)
    /\ mgr.name \notin RAW_RESPONSE_ENTITIES
    /\ Len(last.response[1].xml) = 1
    /\ last.response[1].xml[1].tag = "Response"

\* C17 (as claimed): on HTTP 200, for a manager that is not raw-response,
\* the value returned is the entry under the name of the manager when it is
\* a sequence, the value under the singular key when the entry is a mapping
\* that has it, and the mapping itself in every other case, never None.
C17_Results ==
    ReceivedWrapper =>
        /\ last.outcome.kind = "ok"
        /\ last.value # PyNone
        /\ last.value =
             IF Entry.type = "list" THEN Entry
             ELSE IF Entry.type = "dict" /\ In(mgr.singular, Entry)
                  THEN Item(Entry, mgr.singular)
             ELSE Entry

\* C18: get, all, filter and report_filter send a GET without body; save
\* sends a POST and put a PUT whose body is the one form field xml holding
\* one document: for a list of records the root has the name of the
\* collection and one child of the singular name for each record, in the
\* order of the list, and for one record the root has the singular name.
C18_Descriptors ==
    last.op \in Verbs =>
        IF last.op \in {"get", "all", "filter", "report_filter"}
        THEN Sent.method = "get" /\ Sent.data = None
        ELSE /\ Sent.method = IF last.op = "save" THEN "post" ELSE "put"
             /\ Sent.data # None
             /\ DOMAIN Sent.data[1] = {"xml"}
             /\ Len(Sent.data[1].xml) = 1
             /\ LET root == Sent.data[1].xml[1]
                    data == last.kw[1].data
                IN  IF data.type = "list"
                    THEN /\ root.tag = mgr.name
                         /\ root.text = None
                         /\ Len(root.children) = Len(data.values)
                         /\ \A i \in 1..Len(data.values) :
                              root.children[i] =
                                  dict_to_xml(Element(mgr.singular),
                                              data.values[i][2])
                    ELSE root = dict_to_xml(Element(mgr.singular), data)

\* C18 witness: put of a list of two records has sent a PUT whose document
\* is Invoices with two Invoice children
C18_Witness ==
    /\ last.op = "put" /\ mgr.name = "Invoices"
    /\ last.kw[1].data.type = "list" /\ Len(last.kw[1].data.values) = 2
    /\ Sent.method = "put"
    /\ Sent.data[1].xml[1].tag = "Invoices"
    /\ Sent.data[1].xml[1].children[1].tag = "Invoice"
    /\ Sent.data[1].xml[1].children[2].tag = "Invoice"
    /\ Sent.data[1].xml[1].children[1] # Sent.data[1].xml[1].children[2]

\* verify or refresh was the last call on partner credentials
PartnerCall == cred.mode = "partner" /\ last.op \in {"verify", "refresh"}

\* the session handle a refresh sent
SentHandle == last.sent[1].params[1].oauth_session_handle

\* a refresh that returned replaced the token pair, the session handle and
\* both expiries by what its response gives
RefreshReplaces ==
    PartnerCall /\ last.op = "refresh" /\ last.outcome.kind = "ok" =>
        /\ cred.oauth_token = Some(FieldOf("oauth_token"))
        /\ cred.oauth_token_secret = Some(FieldOf("oauth_token_secret"))
        /\ cred.oauth_session_handle = Some(FieldOf("oauth_session_handle"))
        /\ cred.oauth_expires_at =
             Some(last.clock[1] + DecimalStrings[FieldOf("oauth_expires_in")])
        /\ cred.oauth_authorization_expires_at =
             Some(last.clock[2]
                  + DecimalStrings[FieldOf("oauth_authorization_expires_in")])

GrantWithHandle ==
    /\ Received(200)
    /\ \A k \in {"oauth_token", "oauth_token_secret", "oauth_expires_in",
                 "oauth_session_handle"} : Carries(last.response[1].text, k)

Expiring(c) ==
    c.oauth_expires_at # None \/ c.oauth_authorization_expires_at # None

\* the constructor was given none of the session handle and the expiries
\* (the private class takes no keyword arguments)
ConstructedBare ==
    last.kw = None
    \/ /\ last.kw[1].oauth_session_handle = None
       /\ last.kw[1].oauth_expires_at = None
       /\ last.kw[1].oauth_authorization_expires_at = None

\* C20: public and private credentials never hold an expiry timestamp; on
\* partner credentials constructed without a session handle and expiries,
\* both expiries and the session handle stay None through every call other
\* than a verify or refresh that received HTTP 200.
C20_ExpiryOnlyAfterSuccess ==
    /\ cred.mode \in {"public", "private"} => ~Expiring(cred)
    /\ /\ cred.mode = "partner"
       /\ ~(last.op \in {"verify", "refresh"} /\ Received(200))
       /\ ~Expiring(last.before) /\ last.before.oauth_session_handle = None
       /\ last.op = "init" => ConstructedBare
       => ~Expiring(cred) /\ cred.oauth_session_handle = None

\* C20 witness: a refresh that was refused has left partner credentials
\* without expiries and session handle
C20_Witness ==
    /\ PartnerCall /\ last.op = "refresh" /\ Received(401)
    /\ ~Expiring(cred) /\ cred.oauth_session_handle = None

\* the record the codec was given, and the tree encoding it gives
Given == last.kw[1].data
Encoded == dict_to_xml(Element(mgr.singular), Given)

\* C21 (as claimed): for a list of one or more records under a key that is
\* the name of the manager's collection, the tag encode wraps each record in
\* is the singular the manager of that collection derives; for "Invoices",
\* which has no entry in the exception table, both are the name without its
\* trailing "s".
C21_OneSingular ==
    last.op = "codec" =>
        \A i \in 1..Len(Given.values) :
            LET key == Given.values[i][1]
                sub_data == Given.values[i][2]
                elm == Encoded.children[i]
            IN  /\ key = mgr.name
                /\ sub_data.type = "list" /\ Len(sub_data.values) >= 1
                => /\ Len(elm.children) = Len(sub_data.values)
                   /\ \A j \in 1..Len(elm.children) :
                        elm.children[j].tag = mgr.singular
                   /\ key = "Invoices" => mgr.singular = "Invoice"

\* the criteria of the last call of filter other than since, offset and
\* page, in the order of kwargs.keys()
Reserved == {"since", "offset", "page"}
CriteriaOf(kwargs) == SelectSeq(kwargs.values, LAMBDA c : c[1] \notin Reserved)

\* the places of the double delimiter in a key, and the key with every
\* separator character replaced by the path delimiter
Doubles(key) == {i \in 1..(Len(key) - 1) : SubSeq(key, i, i + 1) = "__"}
Dotted(key) ==
    join("", [i \in 1..Len(key) |->
                 IF SubSeq(key, i, i) = "_" THEN "." ELSE SubSeq(key, i, i)])

\* the predicate of one criterion: field.op(value) for a key that is a field,
\* its only double delimiter and one of the three operators, an equality on
\* the dotted key for every other key
Predicate(kwargs, key) ==
    LET value == filter_get_filter_params(kwargs, key)
        ops == {op \in {"contains", "startswith", "endswith"} :
                   /\ Len(key) >= Len(op) + 2
                   /\ SubSeq(key, Len(key) - Len(op) - 1, Len(key)) = "__" \o op
                   /\ Cardinality(Doubles(key)) = 1}
    IN  IF ops # {}
        THEN LET op == CHOOSE op \in ops : TRUE
             IN  SubSeq(key, 1, Len(key) - Len(op) - 2)
                     \o "." \o op \o "(" \o value \o ")"
        ELSE Dotted(key) \o "==" \o value

Tags(elm) == [j \in 1..Len(elm.children) |-> elm.children[j].tag]
Keys(record) == [j \in 1..Len(record.values) |-> record.values[j][1]]

\* the singular form of a plural key as the claims have it: the entry of the
\* exception table for "Addresses" and "TrackingCategories", else the key
\* without its trailing "s"
SingularForm(key) ==
    CASE key = "Addresses" -> "Address"
      [] key = "TrackingCategories" -> "TrackingCategory"
      [] OTHER -> SubSeq(key, 1, Len(key) - 1)

IsPlural(key) == SubSeq(key, Len(key), Len(key)) = "s"

\* the tags of the elements the claim has encode emit for the keys of a
\* mapping: one for each key, and for a non-plural key holding a list of one
\* or more records one for each record of the list
RepeatedTags(record) ==
    LET tags[i \in 0..Len(record.values)] ==
            IF i = 0 THEN <<>>
            ELSE LET key == record.values[i][1]
                     sub_data == record.values[i][2]
                 IN  tags[i - 1] \o
                     (IF /\ sub_data.type = "list" /\ ~IsPlural(key)
                         /\ Len(sub_data.values) >= 1
                      THEN [j \in 1..Len(sub_data.values) |-> key]
                      ELSE <<key>>)
    IN  tags[Len(record.values)]

\* C23 (as claimed): encoding a mapping emits one child per key; a list of n
\* records under a plural key gives the key's element n children named by
\* the singular form, the j-th holding the fields of the j-th record, and a
\* list of n records under a non-plural key gives n elements with the key's
\* tag, the j-th holding the fields of the j-th record.
C23_Sequences ==
    last.op = "codec" =>
        /\ Tags(Encoded) = RepeatedTags(Given)
        /\ \A i \in 1..Len(Given.values) :
             LET key == Given.values[i][1]
                 sub_data == Given.values[i][2]
                 n == Len(sub_data.values)
                 first == Len(RepeatedTags(
                              [Given EXCEPT !.values = SubSeq(@, 1, i - 1)]))
             IN  sub_data.type = "list" =>
                   IF IsPlural(key)
                   THEN LET elm == Encoded.children[first + 1]
                        IN  /\ Tags(elm) = [j \in 1..n |-> SingularForm(key)]
                            /\ \A j \in 1..n :
                                 Tags(elm.children[j]) = Keys(sub_data.values[j][2])
                   ELSE \A j \in 1..n :
                          Tags(Encoded.children[first + j])
                              = Keys(sub_data.values[j][2])

\* the node of the collection in the document the last call was answered
\* with, and the mapping of the text fields of a record element
CollectionNode == last.response[1].xml[1].children[3]
FieldsOf(elm) ==
    PyDict([k \in 1..Len(elm.children) |->
               <<elm.children[k].tag, PyStr(elm.children[k].text[1])>>])

\* the document holds a collection of one or more records of one tag that is
\* a multi-occurrence name or the singular of the manager
RepeatedChildren ==
    /\ last.op \in {"get", "all"} /\ last.response # None
    /\ Len(last.response[1].xml) = 1
    /\ Len(last.response[1].xml[1].children) = 3
    /\ Len(CollectionNode.children) >= 1
    /\ \A j \in 1..Len(CollectionNode.children) :
         /\ CollectionNode.children[j].tag = CollectionNode.children[1].tag
         /\ CollectionNode.children[j].tag \in MULTI_LINES \cup {mgr.singular}

\* C24 (as claimed): decoding a node whose n >= 1 children all carry one tag,
\* a multi-occurrence name or the singular of the manager, gives the list of
\* the n decoded children in document order, for n = 1 as for n = 2.
C24_Repeated ==
    RepeatedChildren =>
        convert_to_dict(mgr, walk_dom(CollectionNode))
            = PyList([j \in 1..Len(CollectionNode.children) |->
                         FieldsOf(CollectionNode.children[j])])

\* C25: the construction of private credentials sends no request, and in
\* every state private credentials answer oauth with a signing object whose
\* client key and resource-owner token are the consumer key, whose key is
\* the RSA key and whose signature method is RSA-SHA1; no verify step comes
\* before.
C25_PrivateUsable ==
    cred.mode = "private" =>
        /\ last.op = "init" => last.sent = <<>> /\ last.outcome.kind = "ok"
        /\ cred.consumer_key = Some(ConsumerKey)
        /\ LET o == oauth(cred)
           IN  /\ o.outcome.kind = "ok"
               /\ o.value # None
               /\ o.value[1].client_key = cred.consumer_key
               /\ o.value[1].resource_owner_key = cred.consumer_key
               /\ o.value[1].rsa_key = Some(RsaKey)
               /\ o.value[1].signature_method = SIGNATURE_RSA

\* C25 witness: a manager bound to private credentials that were never
\* verified has sent a request signed with the consumer key as token
C25_Witness ==
    /\ cred.mode = "private" /\ ~cred.verified
    /\ last.op = "all" /\ Received(200)
    /\ last.sent[1].auth.resource_owner_key = Some(ConsumerKey)
    /\ last.sent[1].auth.signature_method = SIGNATURE_RSA

\* C26: a verify or refresh, on public or partner credentials, that received
\* a status other than 200 raised the error of that status and left every
\* attribute of the credentials as it was before the call, the verified
\* flag and the signing object among them; so credentials that were
\* verified and answered oauth before the call still do after it.
C26_FailureFrame ==
    /\ last.op \in {"verify", "refresh"}
    /\ last.response # None /\ ~Received(200)
    => /\ last.outcome.kind \in ErrorsOf(last.response[1].status_code)
       /\ cred = last.before
       /\ oauth(cred) = oauth(last.before)

\* C26 witness: a refresh of verified partner credentials was answered 503
\* and the token, the session handle and the signing object are the ones an
\* earlier exchange stored
C26_Witness ==
    /\ PartnerCall /\ last.op = "refresh" /\ Received(503)
    /\ cred.verified /\ cred.oauth_token = Some("at1")
    /\ cred.oauth_session_handle = Some("h1")
    /\ oauth(cred).outcome.kind = "ok"
    /\ cred = last.before

\* every attribute the exchange sets reflects the response the last call
\* received
ReflectsResponse ==
    /\ \A k \in {"oauth_token", "oauth_token_secret", "oauth_session_handle",
                 "oauth_expires_in", "oauth_authorization_expires_in"} :
         Carries(last.response[1].text, k)
    /\ cred.verified
    /\ cred.oauth_token = Some(FieldOf("oauth_token"))
    /\ cred.oauth_token_secret = Some(FieldOf("oauth_token_secret"))
    /\ cred._oauth # None
    /\ cred._oauth[1].resource_owner_key = cred.oauth_token
    /\ cred._oauth[1].resource_owner_secret = cred.oauth_token_secret
    /\ cred.oauth_session_handle = Some(FieldOf("oauth_session_handle"))
    /\ Len(last.clock) = 2
    /\ IsDecimal(FieldOf("oauth_expires_in"))
    /\ IsDecimal(FieldOf("oauth_authorization_expires_in"))
    /\ cred.oauth_expires_at =
         Some(last.clock[1] + DecimalStrings[FieldOf("oauth_expires_in")])
    /\ cred.oauth_authorization_expires_at =
         Some(last.clock[2]
              + DecimalStrings[FieldOf("oauth_authorization_expires_in")])

\* C27 (as claimed): after a verify or refresh of partner credentials that
\* received HTTP 200, whatever the body, either the token, the token secret,
\* the verified flag, the signing object, the session handle and both
\* expiries all reflect the response, or the credentials are as they were
\* before the call.
C27_AllOrNothing ==
    PartnerCall /\ Received(200) => ReflectsResponse \/ cred = last.before

====
